---------------------------- MODULE Spec2Model ----------------------------
(***************************************************************************)
(* A model of mpv-anilist-updater (python/ package).                       *)
(*                                                                         *)
(* Spec          one run of handle_filename against the AniList service    *)
(*               and the on-disk cache: Start (parse, cache read), the     *)
(*               on-list / off-list searches, update_episode_count's       *)
(*               decision, and the SaveMediaListEntry mutations.  Every    *)
(*               HTTP attempt of make_api_request is one step, so that     *)
(*               retries and what the service has applied in between are   *)
(*               visible.                                                  *)
(* SpecResolver  filter_valid_seasons, find_season_and_episode and their   *)
(*               caller applied to search responses drawn from a set.      *)
(* SpecCache     cache_to_file and check_and_clean_cache in any order,     *)
(*               with the clock advancing in between.                      *)
(* SpecRequest   one call of make_api_request, pass by pass.               *)
(* SpecParser    fix_filename and parse_filename applied to paths given by *)
(*               the tagger's output for each of their parts.              *)
(* SpecShared    two processes using the same cache.json.                  *)
(* SpecRuns      two invocations in a row for the files of one directory,  *)
(*               the cache and the list carried from one to the next, with *)
(*               another client of the service acting in between.          *)
(***************************************************************************)
EXTENDS Integers, Sequences, FiniteSets, TLC

(***************************************************************************)
(* Bounds of the model.                                                    *)
(***************************************************************************)
MaxEpisode == 3        \* largest episode number a file name carries
MaxProgress == 2       \* largest progress stored at the service initially

(***************************************************************************)
(* Python's None, for Optional[int] and Optional[str] fields.              *)
(***************************************************************************)
NoneInt == -1
NoneStr == "None"

Statuses == {"CURRENT", "PLANNING", "COMPLETED", "REPEATING", "DROPPED", "PAUSED"}

OptionNames == {"SET_COMPLETED_TO_REWATCHING_ON_FIRST_EPISODE",
                "UPDATE_PROGRESS_WHEN_REWATCHING",
                "SET_TO_COMPLETED_AFTER_LAST_EPISODE_CURRENT",
                "SET_TO_COMPLETED_AFTER_LAST_EPISODE_REWATCHING",
                "ADD_ENTRY_IF_MISSING"}

MAX_RETRIES == 2
CACHE_REFRESH_RATE == 24 * 60 * 60

(***************************************************************************)
(* data_classes.py                                                         *)
(***************************************************************************)
AnimeInfo(anime_id, anime_name, current_progress, total_episodes, file_progress, current_status) ==
    [anime_id |-> anime_id, anime_name |-> anime_name,
     current_progress |-> current_progress, total_episodes |-> total_episodes,
     file_progress |-> file_progress, current_status |-> current_status]

SeasonEpisodeInfo(season_id, season_title, progress, episodes, relative_episode) ==
    [season_id |-> season_id, season_title |-> season_title, progress |-> progress,
     episodes |-> episodes, relative_episode |-> relative_episode]

FileInfo(name, episode, year) == [name |-> name, episode |-> episode, year |-> year]

NoInfo == AnimeInfo(NoneInt, NoneStr, NoneInt, NoneInt, NoneInt, NoneStr)

(***************************************************************************)
(* The service: its catalog (what SEARCH_ANIME finds for the guessed       *)
(* name, in ranking order) and the viewer's list.  A mediaListEntry that   *)
(* is null is the record NoEntry.                                          *)
(***************************************************************************)
NoEntry == [status |-> NoneStr, progress |-> NoneInt]

Catalog ==
    << [id |-> 1, title |-> "Show", season |-> "WINTER", seasonYear |-> 2020,
        episodes |-> 2, duration |-> 24, format |-> "TV", status |-> "FINISHED"],
       [id |-> 2, title |-> "Show 2", season |-> "FALL", seasonYear |-> 2021,
        episodes |-> 2, duration |-> 24, format |-> "TV", status |-> "FINISHED"],
       [id |-> 3, title |-> "Show 3", season |-> "SPRING", seasonYear |-> 2022,
        episodes |-> 1, duration |-> 24, format |-> "TV", status |-> "FINISHED"] >>

MediaIds == {Catalog[i].id : i \in DOMAIN Catalog}

VARIABLES
    options,        \* AniListUpdater.options
    action,         \* AniListUpdater.ACTION: "update" or "launch"
    access_token,   \* AniListUpdater.access_token, NoneStr when no token file
    os_name,        \* os.name: "posix" or "nt"
    list,           \* the service: media id -> the viewer's list entry
    cache,          \* cache.json: directory hash -> cache entry
    now,            \* time.time()
    pc,             \* position of the run
    filename,       \* the path of the file
    file_info,      \* parse_filename's FileInfo of it
    cache_entry,    \* what check_and_clean_cache returned
    result,         \* the AnimeInfo update_episode_count is called with
    entered,        \* whether update_episode_count has been called
    updated,        \* the AnimeInfo update_episode_count returned
    attempt,        \* make_api_request's loop variable
    mutations,      \* the SaveMediaListEntry calls of this run, in order
    response,       \* the last return value of make_api_request for a mutation
    outcome,        \* how the run ended
    opened,         \* the anime id whose page webbrowser opened, or NoneInt
    searches,       \* the SEARCH_ANIME calls of this run
    list_before,    \* the viewer's list when the run started
    cache_before,   \* cache.json before the last cache operation
    media,          \* response["data"]["Page"]["media"] handed to the resolver
    filtered,       \* filter_valid_seasons' return value
    season_episode_info,    \* find_season_and_episode's return value
    posts,          \* what requests.post did in each pass of make_api_request's loop
    guesses,        \* the tagger's output for each part of the path, the file's last
    consulted,      \* the parts of the path handed to the tagger, in order
    loaded,         \* the processes sharing cache.json: position and CacheManager._cache
    history         \* the runs of handle_filename that came before this one, in order

vars == << options, action, access_token, os_name, list, cache, now, pc, filename, file_info,
           cache_entry, result, entered, updated,
           attempt, mutations, response, outcome, opened, searches, list_before,
           cache_before, media, filtered, season_episode_info,
           posts, guesses, consulted, loaded, history >>

\* the variables of the specifications of one function on its own
Standalone == << posts, guesses, consulted, loaded, history >>

StandaloneIdle ==
    posts = << >> /\ guesses = << >> /\ consulted = << >> /\ loaded = << >> /\ history = << >>

(***************************************************************************)
(* api_client.py: one pass of make_api_request's loop.  A net outcome is   *)
(* what requests.post did: a status code class, or the exception raised.   *)
(*   "200"            response.status_code == 200                          *)
(*   "5xx"            a server error status                                *)
(*   "4xx"            any other status                                     *)
(*   "timeout"        Timeout / ConnectionError, the request never served  *)
(*   "lost_reply"     Timeout raised after the service served the request  *)
(*   "request_error"  another RequestException                             *)
(* The value is what the loop does: return the body, go round again, or    *)
(* return None.                                                            *)
(***************************************************************************)
NetOutcomes == {"200", "5xx", "4xx", "timeout", "lost_reply", "request_error"}

\* a loop that goes round again after whatever is not a 200 response
make_api_request_RetryAll(n, net) ==
    CASE net = "200" -> "json"
      [] OTHER -> IF n < MAX_RETRIES THEN "retry" ELSE "none"

make_api_request(n, net) ==
    CASE net = "200" -> "json"
      [] net = "5xx" -> IF n < MAX_RETRIES THEN "retry" ELSE "none"
      [] net \in {"timeout", "lost_reply"} -> IF n < MAX_RETRIES THEN "retry" ELSE "none"
      [] OTHER -> "none"

(***************************************************************************)
(* What the service does with a request.  A request without a viewer       *)
(* token is served without a viewer: a search ignores onList and carries   *)
(* no mediaListEntry, a mutation is refused.                               *)
(***************************************************************************)
Served(net) == net \in {"200", "lost_reply"}

NetFor(token, kind) ==
    IF token = NoneStr /\ kind = "mutation" THEN NetOutcomes \ {"200", "lost_reply"}
    ELSE NetOutcomes

\* response["data"]["Page"]["media"] of SEARCH_ANIME
RECURSIVE SearchMedia(_, _, _)
SearchMedia(s, l, onList) ==
    IF s = << >> THEN << >>
    ELSE LET m == Head(s)
             rest == SearchMedia(Tail(s), l, onList)
         IN IF (l[m.id] # NoEntry) = onList
            THEN << m @@ [mediaListEntry |-> l[m.id]] >> \o rest
            ELSE rest

ServiceSearch(l, token, onList) ==
    IF token = NoneStr
    THEN [i \in DOMAIN Catalog |-> Catalog[i] @@ [mediaListEntry |-> NoEntry]]
    ELSE SearchMedia(Catalog, l, onList)

\* SaveMediaListEntry: the entry after the mutation; the service answers with it.
\* A status change away from COMPLETED resets the progress to 0.
ServiceSave(entry, variables) ==
    LET status == IF variables.status # NoneStr THEN variables.status
                  ELSE IF entry = NoEntry THEN "CURRENT" ELSE entry.status
    IN [status |-> status,
        progress |-> IF entry.status = "COMPLETED" /\ status # "COMPLETED"
                     THEN 0 ELSE variables.progress]

(***************************************************************************)
(* updater.py: the absolute-numbering resolver.                            *)
(***************************************************************************)
DefaultEpisodes == 12

\* the seasons in the order of their names
season_order_Alphabetical(season) ==
    CASE season = "FALL" -> 1
      [] season = "SPRING" -> 2
      [] season = "SUMMER" -> 3
      [] season = "WINTER" -> 4
      [] OTHER -> 5

season_order(season) ==
    CASE season = "WINTER" -> 1
      [] season = "SPRING" -> 2
      [] season = "SUMMER" -> 3
      [] season = "FALL" -> 4
      [] OTHER -> 5

\* Python truthiness of an Optional[int]
Truthy(x) == x # NoneInt /\ x # 0

\* the sort key (x["seasonYear"] or float("inf"), season_order(x["season"])), compared
KeyLess(a, b) ==
    LET ya == a.seasonYear
        yb == b.seasonYear
    IN IF Truthy(ya) /\ Truthy(yb)
       THEN ya < yb \/ (ya = yb /\ season_order(a.season) < season_order(b.season))
       ELSE IF Truthy(ya) THEN TRUE
       ELSE IF Truthy(yb) THEN FALSE
       ELSE season_order(a.season) < season_order(b.season)

\* sorted(): stable, so an element goes after the elements that are not greater
RECURSIVE Insert(_, _)
Insert(sorted, x) ==
    IF sorted = << >> THEN << x >>
    ELSE IF KeyLess(x, Head(sorted)) THEN << x >> \o sorted
    ELSE << Head(sorted) >> \o Insert(Tail(sorted), x)

RECURSIVE Sorted(_)
Sorted(s) == IF s = << >> THEN << >> ELSE Insert(Sorted(SubSeq(s, 1, Len(s) - 1)), s[Len(s)])

\* a duration of 21 minutes let through
ValidSeason_Inclusive(season) ==
    /\ \/ season.duration = NoneInt /\ season.status = "RELEASING"
       \/ season.duration # NoneInt /\ season.duration >= 21
    /\ season.format = "TV"

ValidSeason(season) ==
    /\ \/ season.duration = NoneInt /\ season.status = "RELEASING"
       \/ season.duration # NoneInt /\ season.duration > 21
    /\ season.format = "TV"

filter_valid_seasons(seasons) == Sorted(SelectSeq(seasons, ValidSeason))

\* a season without a count taken to have no episodes
SeasonEpisodes_Zero(season) == IF Truthy(season.episodes) THEN season.episodes ELSE 0

\* line 69: season["episodes"] if season["episodes"] else 12
SeasonEpisodes(season) == IF Truthy(season.episodes) THEN season.episodes ELSE DefaultEpisodes

\* the last episode of a season left to the next season
ReachedBy_Strict(accumulated_episodes, season_episodes, absolute_episode) ==
    accumulated_episodes + season_episodes > absolute_episode

\* line 71
ReachedBy(accumulated_episodes, season_episodes, absolute_episode) ==
    accumulated_episodes + season_episodes >= absolute_episode

\* line 80
NoSeason == SeasonEpisodeInfo(NoneInt, NoneStr, NoneInt, NoneInt, NoneInt)

RECURSIVE Walk(_, _, _)
Walk(seasons, absolute_episode, accumulated_episodes) ==
    IF seasons = << >> THEN NoSeason
    ELSE LET season == Head(seasons)
             season_episodes == SeasonEpisodes(season)
         IN IF ReachedBy(accumulated_episodes, season_episodes, absolute_episode)
            THEN SeasonEpisodeInfo(season.id, season.title,
                                   IF season.mediaListEntry # NoEntry
                                   THEN season.mediaListEntry.progress ELSE NoneInt,
                                   season.episodes,
                                   absolute_episode - accumulated_episodes)
            ELSE Walk(Tail(seasons), absolute_episode, accumulated_episodes + season_episodes)

find_season_and_episode(seasons, absolute_episode) == Walk(seasons, absolute_episode, 0)

\* get_anime_info_and_progress from "entry = seasons[0][...]" on: seasons is not empty
GuessAnime(seasons, file_progress) ==
    LET first == seasons[1]
        entry == first.mediaListEntry
    IN IF first.episodes # NoneInt /\ file_progress > first.episodes
       THEN LET valid == filter_valid_seasons(seasons)
                info == find_season_and_episode(valid, file_progress)
                found == SelectSeq(valid, LAMBDA x : x.id = info.season_id)
                found_entry == IF found # << >> THEN found[1].mediaListEntry ELSE NoEntry
            IN AnimeInfo(info.season_id, info.season_title, info.progress, info.episodes,
                         info.relative_episode,
                         IF found_entry # NoEntry THEN found_entry.status ELSE NoneStr)
       ELSE AnimeInfo(first.id, first.title,
                      IF entry # NoEntry THEN entry.progress ELSE NoneInt,
                      first.episodes, file_progress,
                      IF entry # NoEntry THEN entry.status ELSE NoneStr)

(***************************************************************************)
(* cache_manager.py.  A string is a sequence of characters; the            *)
(* relative_progress field is written with an f-string and read back with  *)
(* split("->") and int().                                                  *)
(***************************************************************************)
DigitChars == << "0", "1", "2", "3", "4", "5", "6", "7", "8", "9" >>

RECURSIVE FormatNat(_)
FormatNat(n) ==
    IF n < 10 THEN << DigitChars[n + 1] >>
    ELSE FormatNat(n \div 10) \o << DigitChars[(n % 10) + 1] >>

\* str(n) of an int
FormatInt(n) == IF n < 0 THEN << "-" >> \o FormatNat(0 - n) ELSE FormatNat(n)

DigitValue(c) == (CHOOSE i \in DOMAIN DigitChars : DigitChars[i] = c) - 1

RECURSIVE ParseNat(_)
ParseNat(s) ==
    IF Len(s) = 1 THEN DigitValue(s[1])
    ELSE 10 * ParseNat(SubSeq(s, 1, Len(s) - 1)) + DigitValue(s[Len(s)])

\* int(s) of a decimal string
ParseInt(s) == IF s[1] = "-" THEN 0 - ParseNat(Tail(s)) ELSE ParseNat(s)

\* f"{absolute_progress}->{relative_progress}"
FormatMapping(absolute_progress, relative_progress) ==
    FormatInt(absolute_progress) \o << "-", ">" >> \o FormatInt(relative_progress)

\* left, right = s.split("->")
SplitArrow(s) ==
    LET i == CHOOSE k \in 1 .. Len(s) - 1 :
                 /\ s[k] = "-" /\ s[k + 1] = ">"
                 /\ \A j \in 1 .. k - 1 : ~(s[j] = "-" /\ s[j + 1] = ">")
    IN << SubSeq(s, 1, i - 1), SubSeq(s, i + 2, Len(s)) >>

\* A path is the sequence of its components below the root: "/anime/Show/e.mkv"
\* is << "anime", "Show", "e.mkv" >>, and "//" leaves an empty component.
\* the file's own path taken for its directory
dirname_FullPath(path) == path

\* os.path.dirname(path)
dirname(path) == SubSeq(path, 1, Len(path) - 1)

\* os.path.normpath of an absolute path: "", "." dropped, ".." steps up
RECURSIVE NormParts(_, _)
NormParts(parts, done) ==
    IF parts = << >> THEN done
    ELSE LET c == Head(parts)
         IN IF c \in {"", "."} THEN NormParts(Tail(parts), done)
            ELSE IF c = ".."
            THEN NormParts(Tail(parts), IF done = << >> THEN done
                                        ELSE SubSeq(done, 1, Len(done) - 1))
            ELSE NormParts(Tail(parts), Append(done, c))

normpath(path) == NormParts(path, << >>)

\* str.lower() of the components that occur
Lower(c) ==
    CASE c = "Show" -> "show"
      [] c = "Other" -> "other"
      [] c = "Anime" -> "anime"
      [] OTHER -> c

\* os.path.normcase: lower case on Windows, nothing elsewhere
normcase(path) == IF os_name = "nt" THEN [i \in DOMAIN path |-> Lower(path[i])] ELSE path

\* hashlib.sha256(...).hexdigest(), taken to be free of collisions
sha256(text) == [sha256 |-> text]

hash_path(path) == sha256(normcase(normpath(path)))

\* the fields of result unpacked in the order of the entry, not of AnimeInfo
cache_to_file_EntryOrder(c, path, guessed_name, absolute_progress, res, t) ==
    LET dir_hash == hash_path(dirname(path))
        entry == [guessed_name |-> guessed_name,
                  anime_id |-> res.anime_id,
                  current_progress |-> res.total_episodes,
                  relative_progress |-> FormatMapping(absolute_progress, res.file_progress),
                  total_episodes |-> res.current_progress,
                  current_status |-> res.current_status,
                  ttl |-> t + CACHE_REFRESH_RATE]
    IN [k \in DOMAIN c \cup {dir_hash} |-> IF k = dir_hash THEN entry ELSE c[k]]

\* the cache after cache_to_file(path, guessed_name, absolute_progress, result) at time t
cache_to_file(c, path, guessed_name, absolute_progress, res, t) ==
    LET dir_hash == hash_path(dirname(path))
        entry == [guessed_name |-> guessed_name,
                  anime_id |-> res.anime_id,
                  current_progress |-> res.current_progress,
                  relative_progress |-> FormatMapping(absolute_progress, res.file_progress),
                  total_episodes |-> res.total_episodes,
                  current_status |-> res.current_status,
                  ttl |-> t + CACHE_REFRESH_RATE]
    IN [k \in DOMAIN c \cup {dir_hash} |-> IF k = dir_hash THEN entry ELSE c[k]]

\* every entry purged, expired or not
CleanCache_All(c, t) == [k \in {} |-> c[k]]

\* nothing purged
CleanCache_Keep(c, t) == c

\* check_and_clean_cache: the cache after the purge of the expired entries ...
CleanCache(c, t) == [k \in {h \in DOMAIN c : ~(c[h].ttl < t)} |-> c[k]]

\* ... and whether it returns an entry for the file
CacheHit(c, t, path, guessed_name) ==
    LET cleaned == CleanCache(c, t)
        dir_hash == hash_path(dirname(path))
    IN dir_hash \in DOMAIN cleaned /\ cleaned[dir_hash].guessed_name = guessed_name

\* check_and_clean_cache's return value None
NoCacheEntry == [guessed_name |-> NoneStr]

\* lines 97-103: the entry returned
check_and_clean_cache(c, t, path, guessed_name) ==
    IF CacheHit(c, t, path, guessed_name)
    THEN CleanCache(c, t)[hash_path(dirname(path))]
    ELSE NoCacheEntry

(***************************************************************************)
(* updater.py: update_episode_count up to its first request.               *)
(***************************************************************************)
Variables(mediaId, progress, status) ==
    [mediaId |-> mediaId, progress |-> progress, status |-> status]

\* the comparison off by one: an episode equal to the progress passes
EpisodeNotNew_Strict(file_progress, current_progress) ==
    Truthy(file_progress) /\ current_progress # NoneInt /\ file_progress < current_progress

\* line 350: file_progress and current_progress is not None and file_progress <= current_progress
EpisodeNotNew(file_progress, current_progress) ==
    Truthy(file_progress) /\ current_progress # NoneInt /\ file_progress <= current_progress

\* the first episode taken to be episode 0
RewatchFirstEpisode_Zero(res, opts) ==
    /\ res.current_status = "COMPLETED"
    /\ res.file_progress = 0
    /\ opts["SET_COMPLETED_TO_REWATCHING_ON_FIRST_EPISODE"]

\* lines 311-315
RewatchFirstEpisode(res, opts) ==
    /\ res.current_status = "COMPLETED"
    /\ res.file_progress = 1
    /\ opts["SET_COMPLETED_TO_REWATCHING_ON_FIRST_EPISODE"]

\* the two options taken for each other
SetToCompleted_Swapped(res, opts) ==
    /\ res.file_progress = res.total_episodes
    /\ \/ res.current_status = "CURRENT" /\ opts["SET_TO_COMPLETED_AFTER_LAST_EPISODE_REWATCHING"]
       \/ res.current_status = "REPEATING" /\ opts["SET_TO_COMPLETED_AFTER_LAST_EPISODE_CURRENT"]

\* lines 359-362
SetToCompleted(res, opts) ==
    /\ res.file_progress = res.total_episodes
    /\ \/ res.current_status = "CURRENT" /\ opts["SET_TO_COMPLETED_AFTER_LAST_EPISODE_CURRENT"]
       \/ res.current_status = "REPEATING" /\ opts["SET_TO_COMPLETED_AFTER_LAST_EPISODE_REWATCHING"]

\* line 291: found by the search, absent from the viewer's list
NotOnList(res) == res.current_progress = NoneInt /\ res.current_status = NoneStr

\* the option not consulted
AddEntryIfMissing_Always(opts) == TRUE

\* line 293
AddEntryIfMissing(opts) == opts["ADD_ENTRY_IF_MISSING"]

\* add_anime_to_list called with its defaults (PLANNING, 0)
AddVariables_Defaults(res) == Variables(res.anime_id, 0, "PLANNING")

\* lines 296-300 and add_anime_to_list's variables
AddVariables(res) == Variables(res.anime_id, res.file_progress, "CURRENT")

\* the option read negated
UpdateWhenRewatching_Negated(res, opts) ==
    res.current_status = "REPEATING" /\ ~opts["UPDATE_PROGRESS_WHEN_REWATCHING"]

\* line 343
UpdateWhenRewatching(res, opts) ==
    res.current_status = "REPEATING" /\ opts["UPDATE_PROGRESS_WHEN_REWATCHING"]

\* PAUSED taken for a watching status
Watching_Paused(res) == res.current_status \in {"CURRENT", "PLANNING", "PAUSED"}

\* line 348
Watching(res) == res.current_status \in {"CURRENT", "PLANNING"}

\* lines 343-363, when no exception is raised
status_to_set(res, opts) ==
    IF SetToCompleted(res, opts) THEN "COMPLETED"
    ELSE IF UpdateWhenRewatching(res, opts) THEN "REPEATING"
    ELSE "CURRENT"

\* lines 365-369
SaveVariables(res, opts) == Variables(res.anime_id, res.file_progress, status_to_set(res, opts))

Decision(step, error, variables) == [step |-> step, error |-> error, variables |-> variables]

NoVariables == Variables(NoneInt, NoneInt, NoneStr)

update_episode_count(res, opts, act) ==
    IF res.anime_id = NoneInt THEN Decision("raise", "NotInList", NoVariables)
    ELSE IF act = "launch" THEN Decision("launch", NoneStr, NoVariables)
    ELSE IF NotOnList(res)
    THEN IF AddEntryIfMissing(opts)
         THEN Decision("mut_add", NoneStr, AddVariables(res))
         ELSE Decision("raise", "NotInList", NoVariables)
    ELSE IF RewatchFirstEpisode(res, opts)
    THEN Decision("mut_rewatch1", NoneStr, Variables(res.anime_id, 0, "REPEATING"))
    ELSE IF UpdateWhenRewatching(res, opts)
    THEN Decision("mut_update", NoneStr, SaveVariables(res, opts))
    ELSE IF Watching(res)
    THEN IF EpisodeNotNew(res.file_progress, res.current_progress)
         THEN Decision("raise", "NotNew", NoVariables)
         ELSE Decision("mut_update", NoneStr, SaveVariables(res, opts))
    ELSE Decision("raise", "NotModifiable", NoVariables)

(***************************************************************************)
(* The initial states: the configuration of the run, the viewer's list,    *)
(* and the cache an earlier run left behind.                               *)
(***************************************************************************)
Names == {"Show"}
Paths == {<< "anime", "Show", "e.mkv" >>}
RawEpisodes == {NoneInt} \cup (0 .. MaxEpisode)

ListEntries == {NoEntry} \cup [status : Statuses, progress : 0 .. MaxProgress]
OtherSeasonEntries == {NoEntry, [status |-> "CURRENT", progress |-> 0],
                       [status |-> "COMPLETED", progress |-> MaxProgress]}

Media(id) == Catalog[CHOOSE i \in DOMAIN Catalog : Catalog[i].id = id]

\* the episodes of the seasons released before the season id
Offset(id) ==
    IF id = 1 THEN 0
    ELSE IF id = 2 THEN Catalog[1].episodes
    ELSE Catalog[1].episodes + Catalog[2].episodes

EmptyCache == [k \in {} |-> NoEntry]

\* the earlier runs: whether the service knew the season's episode count by then,
\* and when the entry was written (expired by now, or not)
EarlierRuns(t) ==
    {[known |-> TRUE, written |-> t - CACHE_REFRESH_RATE - 1],
     [known |-> TRUE, written |-> t - 1],
     [known |-> FALSE, written |-> t - 1]}

\* what the last run wrote when it updated season id to the progress the list shows
EarlierCaches(l, t) ==
    { cache_to_file(EmptyCache, path, name, l[id].progress + Offset(id),
                    AnimeInfo(id, Media(id).title, l[id].progress,
                              IF run.known THEN Media(id).episodes ELSE NoneInt,
                              l[id].progress, l[id].status),
                    run.written) :
        path \in Paths, name \in Names,
        id \in {m \in MediaIds : l[m] # NoEntry /\ l[m].progress \in 1 .. Media(m).episodes},
        run \in EarlierRuns(t) }

Init ==
    /\ options \in [OptionNames -> BOOLEAN]
    /\ action \in {"update", "launch"}
    /\ access_token \in {"token", NoneStr}
    /\ os_name = "posix"
    /\ list \in {l \in [MediaIds -> ListEntries] : l[2] \in OtherSeasonEntries /\ l[3] = NoEntry}
    /\ now = 2 * CACHE_REFRESH_RATE
    /\ cache \in {EmptyCache} \cup EarlierCaches(list, now)
    /\ pc = "start"
    /\ filename = << >>
    /\ file_info = FileInfo(NoneStr, NoneInt, NoneStr)
    /\ cache_entry = NoCacheEntry
    /\ result = NoInfo
    /\ entered = FALSE
    /\ updated = NoInfo
    /\ attempt = 0
    /\ mutations = << >>
    /\ response = NoEntry
    /\ outcome = NoneStr
    /\ opened = NoneInt
    /\ searches = 0
    /\ list_before = list
    /\ cache_before = cache
    /\ media = << >>
    /\ filtered = << >>
    /\ season_episode_info = NoSeason
    /\ StandaloneIdle

Config == << options, action, access_token, os_name, now >>

Resolver == << media, filtered, season_episode_info >>

(***************************************************************************)
(* main.py: an exception ends the run (exit status 1).                     *)
(***************************************************************************)
Raise(error) ==
    /\ pc' = "done"
    /\ outcome' = error
    /\ UNCHANGED updated

\* main: the status the process exits with, once the run is over: 1 after an
\* exception, 0 after handle_filename has returned
exit_status == IF outcome \in {"updated", "launched"} THEN 0 ELSE 1

\* handle_filename lines 129-132, after update_episode_count has returned res
Return(res, how) ==
    /\ updated' = res
    /\ UNCHANGED result
    /\ cache' = IF res.current_progress # NoneInt
                THEN cache_to_file(cache, filename, file_info.name, file_info.episode, res, now)
                ELSE cache
    /\ pc' = "done"
    /\ outcome' = how

(***************************************************************************)
(* handle_filename lines 89-125: parse, read the cache, and either open    *)
(* the cached page, rebuild the AnimeInfo from the cache, or search.       *)
(***************************************************************************)
\* the cached page never used
LaunchFromCache_Never(act, hit, entry) == FALSE

\* line 92: self.ACTION == "launch" and cache_entry and cache_entry.get("anime_id")
LaunchFromCache(act, hit, entry) ==
    act = "launch" /\ hit /\ Truthy(entry.anime_id)

\* lines 104-107: int(left) - int(right) of the relative_progress field
CacheOffset(entry) ==
    LET mapping == SplitArrow(entry.relative_progress)
    IN ParseInt(mapping[1]) - ParseInt(mapping[2])

\* the episode of the file taken as it is (the cached offset not applied)
RelativeEpisode_Absolute(entry, episode) == episode

\* line 109
RelativeEpisode(entry, episode) == episode - CacheOffset(entry)

\* the cached entry used whatever the episode
InCachedSeason_Always(entry, relative_episode) == TRUE

\* line 111: 1 <= relative_episode <= (cache_entry.get("total_episodes") or 0)
InCachedSeason(entry, relative_episode) ==
    /\ 1 <= relative_episode
    /\ relative_episode <= (IF Truthy(entry.total_episodes)
                            THEN entry.total_episodes ELSE 0)

\* lines 113-120
FromCache(entry, relative_episode) ==
    AnimeInfo(entry.anime_id, entry.guessed_name, entry.current_progress,
              entry.total_episodes, relative_episode, entry.current_status)

Start(path, name, raw) ==
    /\ pc = "start"
    /\ LET episode == IF Truthy(raw) THEN raw ELSE 1
           cleaned == CleanCache(cache, now)
           entry == check_and_clean_cache(cache, now, path, name)
           hit == entry # NoCacheEntry
           relative_episode == RelativeEpisode(entry, episode)
       IN /\ filename' = path
          /\ cache_entry' = entry
          /\ file_info' = FileInfo(name, episode, "")
          /\ cache' = cleaned
          /\ list_before' = list
          /\ cache_before' = cache
          /\ IF LaunchFromCache(action, hit, entry)
             THEN /\ opened' = entry.anime_id
                  /\ pc' = "done"
                  /\ outcome' = "launched"
                  /\ searches' = 0
                  /\ UNCHANGED result
             ELSE IF hit /\ InCachedSeason(entry, relative_episode)
             THEN /\ result' = FromCache(entry, relative_episode)
                  /\ pc' = "update"
                  /\ searches' = 0
                  /\ UNCHANGED << outcome, opened >>
             ELSE /\ pc' = "search_on"
                  /\ searches' = 1
                  /\ UNCHANGED << result, outcome, opened >>
    /\ UNCHANGED << Config, Resolver, Standalone, list, attempt, mutations, response, entered, updated >>

(***************************************************************************)
(* get_anime_info_and_progress: one attempt of the on-list search, and     *)
(* what follows its answer.                                                *)
(***************************************************************************)
\* the whole catalog searched whenever the list has no match
SearchAllAnime_Always(act, opts) == TRUE

\* line 197: self.ACTION == "launch" or self.options.get("ADD_ENTRY_IF_MISSING", False)
SearchAllAnime(act, opts) == act = "launch" \/ opts["ADD_ENTRY_IF_MISSING"]

SearchOnList(net) ==
    /\ pc = "search_on"
    /\ LET r == make_api_request(attempt, net)
           seasons == ServiceSearch(list, access_token, TRUE)
       IN CASE r = "retry" ->
                 /\ attempt' = attempt + 1
                 /\ UNCHANGED << pc, result, outcome, updated, searches >>
            [] r = "none" ->
                 /\ result' = NoInfo
                 /\ pc' = "update"
                 /\ attempt' = 0
                 /\ UNCHANGED << outcome, updated, searches >>
            [] r = "json" /\ seasons = << >> ->
                 /\ attempt' = 0
                 /\ UNCHANGED result
                 /\ IF SearchAllAnime(action, options)
                    THEN /\ pc' = "search_all"
                         /\ searches' = searches + 1
                         /\ UNCHANGED << outcome, updated >>
                    ELSE Raise("NotFound") /\ UNCHANGED searches
            [] r = "json" /\ seasons # << >> ->
                 /\ result' = GuessAnime(seasons, file_info.episode)
                 /\ pc' = "update"
                 /\ attempt' = 0
                 /\ UNCHANGED << outcome, updated, searches >>
    /\ UNCHANGED << Config, Resolver, Standalone, list, cache, filename, file_info, cache_entry, mutations, response,
                    opened, list_before, cache_before, entered >>

\* lines 199-217: the search of the whole catalog
SearchAll(net) ==
    /\ pc = "search_all"
    /\ LET r == make_api_request(attempt, net)
           seasons == ServiceSearch(list, access_token, FALSE)
       IN CASE r = "retry" ->
                 /\ attempt' = attempt + 1
                 /\ UNCHANGED << pc, result, outcome, updated >>
            [] r = "none" ->
                 /\ result' = NoInfo
                 /\ pc' = "update"
                 /\ attempt' = 0
                 /\ UNCHANGED << outcome, updated >>
            [] r = "json" /\ seasons = << >> ->
                 /\ attempt' = 0
                 /\ UNCHANGED result
                 /\ Raise("NotFound")
            [] r = "json" /\ seasons # << >> ->
                 /\ result' = IF action # "launch" /\ options["ADD_ENTRY_IF_MISSING"]
                              THEN AnimeInfo(seasons[1].id, seasons[1].title, NoneInt,
                                             seasons[1].episodes, file_info.episode, NoneStr)
                              ELSE GuessAnime(seasons, file_info.episode)
                 /\ pc' = "update"
                 /\ attempt' = 0
                 /\ UNCHANGED << outcome, updated >>
    /\ UNCHANGED << Config, Resolver, Standalone, list, cache, filename, file_info, cache_entry, mutations, response,
                    opened, searches, list_before, cache_before, entered >>

\* get_anime_info_and_progress as a whole, every request answered: the AnimeInfo
\* returned, NoInfo when it raises
get_anime_info_and_progress(l, token, opts, act, file_progress) ==
    LET on_list == ServiceSearch(l, token, TRUE)
        all == ServiceSearch(l, token, FALSE)
    IN IF on_list # << >> THEN GuessAnime(on_list, file_progress)
       ELSE IF ~SearchAllAnime(act, opts) \/ all = << >> THEN NoInfo
       ELSE IF act # "launch" /\ opts["ADD_ENTRY_IF_MISSING"]
       THEN AnimeInfo(all[1].id, all[1].title, NoneInt, all[1].episodes, file_progress, NoneStr)
       ELSE GuessAnime(all, file_progress)

(***************************************************************************)
(* update_episode_count: the decision, up to the first mutation.           *)
(***************************************************************************)
\* a call of make_api_request for a mutation: the requests sent so far and what
\* the call returned
Call(variables) == [variables |-> variables, sends |-> 0, returned |-> "pending"]

\* the staleness check made after the request has gone out
UpdateEpisodeCount_SendFirst ==
    /\ pc = "update"
    /\ entered' = TRUE
    /\ LET d == update_episode_count(result, options, action)
           v == SaveVariables(result, options)
       IN CASE d.step = "raise" /\ d.error = "NotNew" ->
                 /\ mutations' = Append(mutations, [variables |-> v, sends |-> 1, returned |-> "pending"])
                 /\ list' = [list EXCEPT ![v.mediaId] = ServiceSave(@, v)]
                 /\ Raise(d.error)
                 /\ UNCHANGED << cache, result, opened >>
            [] d.step = "raise" /\ d.error # "NotNew" ->
                 /\ Raise(d.error)
                 /\ UNCHANGED << cache, result, mutations, opened, list >>
            [] d.step = "launch" ->
                 /\ opened' = result.anime_id
                 /\ Return(result, "launched")
                 /\ UNCHANGED << mutations, list >>
            [] OTHER ->
                 /\ mutations' = Append(mutations, Call(d.variables))
                 /\ pc' = d.step
                 /\ UNCHANGED << cache, result, outcome, opened, updated, list >>
    /\ UNCHANGED << Config, Resolver, Standalone, filename, file_info, cache_entry, attempt, response, searches,
                    list_before, cache_before >>

UpdateEpisodeCount ==
    /\ pc = "update"
    /\ entered' = TRUE
    /\ LET d == update_episode_count(result, options, action)
       IN CASE d.step = "raise" ->
                 /\ Raise(d.error)
                 /\ UNCHANGED << cache, result, mutations, opened >>
            [] d.step = "launch" ->
                 /\ opened' = result.anime_id
                 /\ Return(result, "launched")
                 /\ UNCHANGED mutations
            [] OTHER ->
                 /\ mutations' = Append(mutations, Call(d.variables))
                 /\ pc' = d.step
                 /\ UNCHANGED << cache, result, outcome, opened, updated >>
    /\ UNCHANGED << Config, Resolver, Standalone, list, filename, file_info, cache_entry, attempt, response, searches,
                    list_before, cache_before >>

(***************************************************************************)
(* One attempt of make_api_request for the mutation last issued: the       *)
(* request is sent, the service may serve it, and the loop returns the     *)
(* body, goes round again or returns None.                                 *)
(***************************************************************************)
Sent == [mutations EXCEPT ![Len(mutations)].sends = @ + 1]

\* the call returns r: the body ("json") or None ("none")
Answered(r) == [Sent EXCEPT ![Len(mutations)].returned = r]

Saved(net) ==
    LET v == mutations[Len(mutations)].variables
    IN IF Served(net) THEN [list EXCEPT ![v.mediaId] = ServiceSave(@, v)] ELSE list

\* response["data"]["SaveMediaListEntry"] when the loop returns the body
Echo(net) == Saved(net)[mutations[Len(mutations)].variables.mediaId]

Retry ==
    /\ attempt' = attempt + 1
    /\ UNCHANGED << pc, result, outcome, cache, response, updated >>

\* add_anime_to_list and lines 300-307
AddAnimeToList(net) ==
    /\ pc = "mut_add"
    /\ list' = Saved(net)
    /\ LET r == make_api_request(attempt, net)
       IN CASE r = "retry" -> Retry /\ mutations' = Sent
            [] r = "json" ->
                 /\ mutations' = Answered("json")
                 /\ response' = Echo(net)
                 /\ attempt' = 0
                 /\ Return(AnimeInfo(result.anime_id, result.anime_name, result.file_progress,
                                     result.total_episodes, result.file_progress, "CURRENT"),
                           "updated")
            [] r = "none" ->
                 /\ mutations' = Answered("none")
                 /\ response' = NoEntry
                 /\ attempt' = 0
                 /\ Raise("AddFailed")
                 /\ UNCHANGED << result, cache >>
    /\ UNCHANGED << Config, Resolver, Standalone, filename, file_info, cache_entry, opened, searches, list_before,
                    cache_before, entered >>

\* lines 323-327: the first mutation of the rewatch; its response is not looked at
RewatchStep1(net) ==
    /\ pc = "mut_rewatch1"
    /\ list' = Saved(net)
    /\ LET r == make_api_request(attempt, net)
       IN CASE r = "retry" -> Retry /\ mutations' = Sent
            [] OTHER ->
                 /\ mutations' = Append(Answered(r), Call(Variables(result.anime_id, 1, NoneStr)))
                 /\ response' = IF r = "json" THEN Echo(net) ELSE NoEntry
                 /\ attempt' = 0
                 /\ pc' = "mut_rewatch2"
                 /\ UNCHANGED << result, outcome, cache, updated >>
    /\ UNCHANGED << Config, Resolver, Standalone, filename, file_info, cache_entry, opened, searches, list_before,
                    cache_before, entered >>

\* lines 329-340: the second mutation of the rewatch
RewatchStep2(net) ==
    /\ pc = "mut_rewatch2"
    /\ list' = Saved(net)
    /\ LET r == make_api_request(attempt, net)
       IN CASE r = "retry" -> Retry /\ mutations' = Sent
            [] r = "json" ->
                 /\ mutations' = Answered("json")
                 /\ response' = Echo(net)
                 /\ attempt' = 0
                 /\ Return(AnimeInfo(result.anime_id, result.anime_name, Echo(net).progress,
                                     result.total_episodes, 1, "REPEATING"),
                           "updated")
            [] r = "none" ->
                 /\ mutations' = Answered("none")
                 /\ response' = NoEntry
                 /\ attempt' = 0
                 /\ Raise("UpdateFailed")
                 /\ UNCHANGED << result, cache >>
    /\ UNCHANGED << Config, Resolver, Standalone, filename, file_info, cache_entry, opened, searches, list_before,
                    cache_before, entered >>

\* lines 365-380: the single mutation
SaveProgress(net) ==
    /\ pc = "mut_update"
    /\ list' = Saved(net)
    /\ LET r == make_api_request(attempt, net)
       IN CASE r = "retry" -> Retry /\ mutations' = Sent
            [] r = "json" ->
                 /\ mutations' = Answered("json")
                 /\ response' = Echo(net)
                 /\ attempt' = 0
                 /\ Return(AnimeInfo(result.anime_id, result.anime_name, Echo(net).progress,
                                     result.total_episodes, result.file_progress,
                                     Echo(net).status),
                           "updated")
            [] r = "none" ->
                 /\ mutations' = Answered("none")
                 /\ response' = NoEntry
                 /\ attempt' = 0
                 /\ Raise("UpdateFailed")
                 /\ UNCHANGED << result, cache >>
    /\ UNCHANGED << Config, Resolver, Standalone, filename, file_info, cache_entry, opened, searches, list_before,
                    cache_before, entered >>

Next ==
    \/ \E path \in Paths, name \in Names, raw \in RawEpisodes : Start(path, name, raw)
    \/ \E net \in NetFor(access_token, "search") : SearchOnList(net)
    \/ \E net \in NetFor(access_token, "search") : SearchAll(net)
    \/ UpdateEpisodeCount
    \/ \E net \in NetFor(access_token, "mutation") : AddAnimeToList(net)
    \/ \E net \in NetFor(access_token, "mutation") : RewatchStep1(net)
    \/ \E net \in NetFor(access_token, "mutation") : RewatchStep2(net)
    \/ \E net \in NetFor(access_token, "mutation") : SaveProgress(net)

Spec == Init /\ [][Next]_vars

(***************************************************************************)
(* The absolute-numbering resolver on its own: a search response is drawn, *)
(* and filter_valid_seasons, find_season_and_episode and the part of       *)
(* get_anime_info_and_progress that uses them are applied to it.           *)
(***************************************************************************)
MaxSeasons == 2        \* longest search response drawn

Titles == << "Show", "Show 2", "Show 3", "Show 4" >>

\* a medium that passes the filter, released in winter 2020, absent from the list
PlainSeason ==
    [season |-> "WINTER", seasonYear |-> 2020, episodes |-> 2, duration |-> 24,
     format |-> "TV", status |-> "FINISHED", mediaListEntry |-> NoEntry]

\* the media of a response, but for id and title: each varies the plain one in
\* what the filter reads, in what the sort reads, or in what the walk reads
SeasonShapes ==
    {[PlainSeason EXCEPT !.duration = d, !.status = st] :
        d \in {NoneInt, 21, 22}, st \in {"RELEASING", "FINISHED"}}
    \cup {[PlainSeason EXCEPT !.format = "MOVIE", !.duration = d, !.status = "RELEASING"] :
              d \in {NoneInt, 22}}
    \cup {[PlainSeason EXCEPT !.season = sn] : sn \in {"SPRING", "SUMMER", "FALL", NoneStr}}
    \cup {[PlainSeason EXCEPT !.seasonYear = y, !.season = "FALL"] : y \in {2019, NoneInt}}
    \cup {[PlainSeason EXCEPT !.seasonYear = NoneInt, !.season = NoneStr]}
    \cup {[PlainSeason EXCEPT !.episodes = n, !.mediaListEntry = e] :
              n \in {NoneInt, 2}, e \in {NoEntry, [status |-> "CURRENT", progress |-> 1]}}
    \cup {[PlainSeason EXCEPT !.episodes = 1]}

MediaLists ==
    UNION {{[i \in 1 .. n |-> shapes[i] @@ [id |-> i, title |-> Titles[i]]] :
               shapes \in [1 .. n -> SeasonShapes]} : n \in 0 .. MaxSeasons}

\* the episode numbers of the files: in the first season, and past a default season
AbsoluteEpisodes ==
    (1 .. MaxEpisode) \cup (DefaultEpisodes .. DefaultEpisodes + MaxEpisode)

InitResolver ==
    /\ media \in MediaLists
    /\ file_info \in {FileInfo("Show", n, "") : n \in AbsoluteEpisodes}
    /\ filtered = << >>
    /\ season_episode_info = NoSeason
    /\ result = NoInfo
    /\ pc = "response"
    /\ options = [o \in OptionNames |-> FALSE]
    /\ action = "update"
    /\ access_token = "token"
    /\ os_name = "posix"
    /\ list = [m \in MediaIds |-> NoEntry]
    /\ now = 0
    /\ cache = EmptyCache
    /\ filename = << >>
    /\ cache_entry = NoCacheEntry
    /\ entered = FALSE
    /\ updated = NoInfo
    /\ attempt = 0
    /\ mutations = << >>
    /\ response = NoEntry
    /\ outcome = NoneStr
    /\ opened = NoneInt
    /\ searches = 0
    /\ list_before = list
    /\ cache_before = cache
    /\ StandaloneIdle

Idle == << Config, list, cache, filename, file_info, cache_entry, entered, updated, attempt,
           mutations, response, outcome, opened, searches, list_before, cache_before,
           Standalone >>

FilterValidSeasons ==
    /\ pc = "response"
    /\ filtered' = filter_valid_seasons(media)
    /\ pc' = "filtered"
    /\ UNCHANGED << Idle, media, season_episode_info, result >>

FindSeasonAndEpisode ==
    /\ pc = "filtered"
    /\ season_episode_info' = find_season_and_episode(media, file_info.episode)
    /\ pc' = "resolved"
    /\ UNCHANGED << Idle, media, filtered, result >>

\* get_anime_info_and_progress lines 221-260, for a response that is not empty
GetAnimeInfo ==
    /\ pc = "resolved"
    /\ media # << >>
    /\ result' = GuessAnime(media, file_info.episode)
    /\ pc' = "guessed"
    /\ UNCHANGED << Idle, media, filtered, season_episode_info >>

NextResolver == FilterValidSeasons \/ FindSeasonAndEpisode \/ GetAnimeInfo

SpecResolver == InitResolver /\ [][NextResolver]_vars

(***************************************************************************)
(* cache_manager.py on its own: cache.json under any sequence of           *)
(* cache_to_file, check_and_clean_cache and the passing of time, with the  *)
(* files of several directories.                                           *)
(***************************************************************************)
MaxTicks == 2          \* how often the clock advances

\* the clock advances by the life of an entry: an entry written at t expires
\* after t + CACHE_REFRESH_RATE, so it is still usable one tick later
TickSeconds == CACHE_REFRESH_RATE

\* "/anime/Show/e1.mkv"; its sibling e2.mkv, the directory spelt
\* "/anime//Other/./../Show"; a file of another directory; a file of a directory
\* whose name differs in case only
CachePaths ==
    {<< "anime", "Show", "e1.mkv" >>,
     << "anime", "", "Other", ".", "..", "Show", "e2.mkv" >>,
     << "anime", "Other", "e1.mkv" >>,
     << "Anime", "Show", "e1.mkv" >>}

CacheNames == {"Show", "show"}

\* the (absolute_progress, result) pairs written for a file: an entry of the list,
\* and for the files of "/anime/Other" an anime that is not on the list and whose
\* episode count is unknown
CacheWrites(path) ==
    IF path = << "anime", "Other", "e1.mkv" >>
    THEN {[absolute_progress |-> 1, result |-> AnimeInfo(1, "Show", NoneInt, NoneInt, 1, NoneStr)]}
    ELSE {[absolute_progress |-> 3, result |-> AnimeInfo(2, "Show 2", 1, 2, 1, "CURRENT")]}

InitCache ==
    /\ cache = EmptyCache
    /\ now = 0
    /\ os_name \in {"posix", "nt"}
    /\ pc = "idle"
    /\ filename = << >>
    /\ file_info = FileInfo(NoneStr, NoneInt, NoneStr)
    /\ cache_entry = NoCacheEntry
    /\ result = NoInfo
    /\ cache_before = cache
    /\ options = [o \in OptionNames |-> FALSE]
    /\ action = "update"
    /\ access_token = "token"
    /\ list = [m \in MediaIds |-> NoEntry]
    /\ entered = FALSE
    /\ updated = NoInfo
    /\ attempt = 0
    /\ mutations = << >>
    /\ response = NoEntry
    /\ outcome = NoneStr
    /\ opened = NoneInt
    /\ searches = 0
    /\ list_before = list
    /\ media = << >>
    /\ filtered = << >>
    /\ season_episode_info = NoSeason
    /\ StandaloneIdle

Untouched == << options, action, access_token, os_name, list, entered, updated, attempt,
                mutations, response, outcome, opened, searches, list_before, Resolver,
                Standalone >>

\* cache_manager.cache_to_file(path, guessed_name, absolute_progress, result)
CacheToFile(path, guessed_name, w) ==
    /\ cache' = cache_to_file(cache, path, guessed_name, w.absolute_progress, w.result, now)
    /\ cache_before' = cache
    /\ filename' = path
    /\ file_info' = FileInfo(guessed_name, w.absolute_progress, "")
    /\ result' = w.result
    /\ pc' = "written"
    /\ UNCHANGED << Untouched, now, cache_entry >>

\* cache_manager.check_and_clean_cache(path, guessed_name)
CheckAndCleanCache(path, guessed_name) ==
    /\ cache' = CleanCache(cache, now)
    /\ cache_entry' = check_and_clean_cache(cache, now, path, guessed_name)
    /\ cache_before' = cache
    /\ filename' = path
    /\ file_info' = FileInfo(guessed_name, NoneInt, "")
    /\ pc' = "read"
    /\ UNCHANGED << Untouched, now, result >>

\* time.time() moves on between two operations, that is, between two processes
Tick ==
    /\ now < MaxTicks * TickSeconds
    /\ now' = now + TickSeconds
    /\ pc' = "idle"
    /\ cache_before' = cache
    /\ filename' = << >>
    /\ file_info' = FileInfo(NoneStr, NoneInt, NoneStr)
    /\ cache_entry' = NoCacheEntry
    /\ result' = NoInfo
    /\ UNCHANGED << Untouched, cache >>

NextCache ==
    \/ \E path \in CachePaths, name \in CacheNames : \E w \in CacheWrites(path) :
           CacheToFile(path, name, w)
    \/ \E path \in CachePaths, name \in CacheNames : CheckAndCleanCache(path, name)
    \/ Tick

SpecCache == InitCache /\ [][NextCache]_vars

(***************************************************************************)
(* api_client.py on its own: one call of make_api_request, for the search  *)
(* or for a mutation, with or without a token; each pass of its loop is a  *)
(* step, and posts records what requests.post did in each of them.         *)
(***************************************************************************)
\* the variables of the mutation, << >> for the search
RequestVariables ==
    {<< >>} \cup {<< Call(Variables(1, p, s)) >> : p \in 1 .. MaxProgress, s \in {NoneStr, "CURRENT"}}

InitRequest ==
    /\ access_token \in {"token", NoneStr}
    /\ mutations \in RequestVariables
    /\ searches = IF mutations = << >> THEN 1 ELSE 0
    /\ list \in {[m \in MediaIds |-> NoEntry],
                 [m \in MediaIds |-> IF m = 1 THEN [status |-> "CURRENT", progress |-> 0]
                                     ELSE NoEntry]}
    /\ list_before = list
    /\ posts = << >>
    /\ attempt = 0
    /\ pc = "request"
    /\ outcome = NoneStr
    /\ response = NoEntry
    /\ options = [o \in OptionNames |-> FALSE]
    /\ action = "update"
    /\ os_name = "posix"
    /\ now = 0
    /\ cache = EmptyCache
    /\ cache_before = cache
    /\ filename = << >>
    /\ file_info = FileInfo(NoneStr, NoneInt, NoneStr)
    /\ cache_entry = NoCacheEntry
    /\ result = NoInfo
    /\ entered = FALSE
    /\ updated = NoInfo
    /\ opened = NoneInt
    /\ media = << >>
    /\ filtered = << >>
    /\ season_episode_info = NoSeason
    /\ guesses = << >> /\ consulted = << >> /\ loaded = << >> /\ history = << >>

\* lines 36-74: one pass of the loop; outcome is what the call returns
Post(net) ==
    /\ pc = "request"
    /\ posts' = Append(posts, net)
    /\ list' = IF mutations = << >> THEN list ELSE Saved(net)
    /\ LET r == make_api_request(attempt, net)
       IN /\ mutations' = IF mutations = << >> THEN mutations
                          ELSE IF r = "retry" THEN Sent ELSE Answered(r)
          /\ CASE r = "retry" ->
                    /\ attempt' = attempt + 1
                    /\ UNCHANGED << pc, outcome, response >>
               [] r = "json" ->
                    /\ pc' = "returned"
                    /\ outcome' = "json"
                    /\ response' = IF mutations = << >> THEN NoEntry ELSE Echo(net)
                    /\ UNCHANGED attempt
               [] r = "none" ->
                    /\ pc' = "returned"
                    /\ outcome' = "none"
                    /\ UNCHANGED << attempt, response >>
    /\ UNCHANGED << options, action, access_token, os_name, now, cache, cache_before, filename,
                    file_info, cache_entry, result, entered, updated, opened, searches,
                    list_before, Resolver, guesses, consulted, loaded, history >>

NextRequest ==
    \E net \in NetFor(access_token, IF mutations = << >> THEN "search" ELSE "mutation") : Post(net)

SpecRequest == InitRequest /\ [][NextRequest]_vars

(***************************************************************************)
(* filename_parser.py.  The tagger (guessit) is not modelled: a part of    *)
(* the path is given by what the tagger returns for it, a dict whose keys  *)
(* are in the order of the matches.  A value that may be a list (episode,  *)
(* season) is a sequence, of length 1 for a single value.  Strings that    *)
(* the parser builds or converts are sequences of characters.  The file's  *)
(* guess is the same with and without its extension, and no title is one   *)
(* of those fix_filename rewrites, so fix_filename returns the parts as    *)
(* they are.                                                               *)
(***************************************************************************)
Guess(keys, title, episode, season, part, year, episode_title) ==
    [keys |-> keys, title |-> title, episode |-> episode, season |-> season,
     part |-> part, year |-> year, episode_title |-> episode_title]

\* the empty dict
EmptyGuess == Guess(<< >>, << >>, << >>, << >>, NoneInt, NoneInt, << >>)

\* key in guess
Has(guess, key) == \E i \in DOMAIN guess.keys : guess.keys[i] = key

\* list(guess.keys()).index(key)
KeyIndex(guess, key) == (CHOOSE i \in DOMAIN guess.keys : guess.keys[i] = key) - 1

\* str.isdigit()
isdigit(s) == s # << >> /\ \A i \in DOMAIN s : \E d \in DOMAIN DigitChars : DigitChars[d] = s[i]

\* " ".join(str(ep) for ep in remaining)
RECURSIVE Join(_)
Join(numbers) ==
    IF numbers = << >> THEN << >>
    ELSE IF Len(numbers) = 1 THEN FormatInt(numbers[1])
    ELSE FormatInt(numbers[1]) \o << " " >> \o Join(Tail(numbers))

\* fix_filename lines 35-41: the folders handed to the tagger, in order
fix_filename(path_parts) ==
    LET n == Len(path_parts)
    IN IF Has(path_parts[n], "title") \/ ~(2 < n) THEN << >>
       ELSE IF Has(path_parts[n - 1], "title") \/ ~(3 < n) THEN << 2 >>
       ELSE << 2, 3 >>

\* lines 96, 103-105: the episode key, or an all-digit episode_title in its absence
GuessedEpisode(guess) ==
    IF Has(guess, "episode") THEN guess.episode
    ELSE IF Has(guess, "episode_title") /\ isdigit(guess.episode_title)
         THEN << ParseNat(guess.episode_title) >>
         ELSE << >>

\* no number of the list is kept for the name
Remaining_None(episode) == << >>

\* lines 108-110: remaining = episode[:-1]
Remaining(episode) == IF Len(episode) > 1 THEN SubSeq(episode, 1, Len(episode) - 1) ELSE << >>

\* lines 108-111: episode = episode[-1], None for no episode
LastEpisode(episode) == IF episode = << >> THEN NoneInt ELSE episode[Len(episode)]

\* lines 114-119: the last season of a list for an episode still None
SeasonEpisode(episode, season) ==
    IF Len(season) > 1 /\ episode = NoneInt THEN season[Len(season)] ELSE episode

\* the episode as it is
EpisodeOrOne_Unchanged(episode) == episode

\* line 124: episode or 1
EpisodeOrOne(episode) == IF episode = NoneInt \/ episode = 0 THEN 1 ELSE episode

\* the title trusted wherever the episode and the season are
title_in_filename_AnyOrder(guess) == Has(guess, "title")

\* lines 128-131
title_in_filename(guess) ==
    LET episode_index == IF Has(guess, "episode") THEN KeyIndex(guess, "episode") ELSE 1
        season_index == IF Has(guess, "season") THEN KeyIndex(guess, "season") ELSE -1
    IN Has(guess, "title") /\ (episode_index > 0 /\ (season_index > 0 \/ season_index = -1))

\* str(guess.get(key, "")) of a number
StrOf(guess, key, value) == IF Has(guess, key) THEN FormatInt(value) ELSE << >>

\* lines 155-156: if not name: break
FolderBreak(name) == name = << >>

\* lines 143-156: one pass of the loop over the folders, on the parser's locals
FolderGuess(locals, path_parts, depth) ==
    IF locals.stop \/ ~(Len(path_parts) > depth - 1) THEN locals
    ELSE LET folder_guess == path_parts[Len(path_parts) - depth + 1]
             name == IF Has(folder_guess, "title") THEN folder_guess.title ELSE << >>
         IN IF folder_guess.keys = << >>
            THEN [locals EXCEPT !.consulted = Append(@, depth)]
            ELSE [name |-> name,
                  season |-> IF locals.season # << >> THEN locals.season
                             ELSE StrOf(folder_guess, "season",
                                        IF Has(folder_guess, "season")
                                        THEN folder_guess.season[1] ELSE NoneInt),
                  part |-> IF locals.part # << >> THEN locals.part
                           ELSE StrOf(folder_guess, "part", folder_guess.part),
                  year |-> IF locals.year # << >> THEN locals.year
                           ELSE StrOf(folder_guess, "year", folder_guess.year),
                  consulted |-> Append(locals.consulted, depth),
                  stop |-> FolderBreak(name)]

\* lines 159-161
RemainingSuffix(remaining) == IF remaining # << >> THEN << " " >> \o Join(remaining) ELSE << >>

\* " Season {season}" whenever there is a part
SeasonSuffix_Part(season, part) ==
    IF part # << >>
    THEN << " ", "S", "e", "a", "s", "o", "n", " " >> \o season
    ELSE << >>

\* lines 164-165
SeasonSuffix(season, part) ==
    IF season # << >> /\ (ParseInt(season) > 1 \/ part # << >>)
    THEN << " ", "S", "e", "a", "s", "o", "n", " " >> \o season
    ELSE << >>

\* lines 167-168
PartSuffix(part) == IF part # << >> THEN << " ", "P", "a", "r", "t", " " >> \o part ELSE << >>

\* parse_filename lines 82-171: the FileInfo returned and the folders handed to the
\* tagger on the way
parse_filename(path_parts) ==
    LET guess == path_parts[Len(path_parts)]
        guessed == GuessedEpisode(guess)
        season == IF Has(guess, "season") THEN guess.season ELSE << >>
        episode == EpisodeOrOne(SeasonEpisode(LastEpisode(guessed), season))
        trusted == title_in_filename(guess)
        start == [name |-> IF trusted THEN guess.title ELSE << >>,
                  season |-> IF season = << >> THEN << >> ELSE FormatInt(season[1]),
                  part |-> StrOf(guess, "part", guess.part),
                  year |-> StrOf(guess, "year", guess.year),
                  consulted |-> << >>,
                  stop |-> trusted]
        locals == FolderGuess(FolderGuess(start, path_parts, 2), path_parts, 3)
        name == locals.name \o RemainingSuffix(Remaining(guessed))
                    \o SeasonSuffix(locals.season, locals.part) \o PartSuffix(locals.part)
    IN [file_info |-> FileInfo(name, episode, locals.year), consulted |-> locals.consulted]

(***************************************************************************)
(* The parser on its own: a path is drawn, part by part, as the tagger's   *)
(* output for each part, and fix_filename and the rest of parse_filename   *)
(* are applied to it.                                                      *)
(***************************************************************************)
TitleShow == << "S", "h", "o", "w" >>
TitleSeries == << "S", "e", "r", "i", "e", "s" >>
TitleAnime == << "A", "n", "i", "m", "e" >>

Opt(present, key) == IF present THEN << key >> ELSE << >>

\* the orders in which the tagger may find the title, the season and the episode of
\* a file, with a release group before them or not
KeyOrders ==
    {<< "title", "episode" >>, << "episode", "title" >>,
     << "title", "season", "episode" >>, << "season", "title", "episode" >>,
     << "season", "episode", "title" >>, << "release_group", "episode", "title" >>,
     << "release_group", "season", "episode", "title" >>,
     << "title" >>, << "title", "season" >>, << "season", "title" >>,
     << "episode" >>, << "season", "episode" >>, << "release_group" >>}

\* what the tagger may return for the file: the orders of the keys; the ways of
\* giving the episode; the seasons, parts and years of a trusted title and of a title
\* that is not trusted
FileGuesses ==
    {Guess(k, TitleShow, << 5 >>, << 2 >>, NoneInt, NoneInt, << >>) : k \in KeyOrders}
    \cup {Guess(<< "title" >> \o Opt(s # << >>, "season") \o Opt(e # << >>, "episode")
                    \o Opt(t # << >>, "episode_title"),
                TitleShow, e, s, NoneInt, NoneInt, t) :
              e \in {<< >>, << 0 >>, << 5 >>, << 86, 13 >>, << 1, 2, 3 >>},
              s \in {<< >>, << 2 >>, << 2, 3 >>},
              t \in {<< >>, << "0", "2" >>, << "0", "0" >>, << "I", "n", "t", "r", "o" >>}}
    \cup {Guess(Opt(first = "title", "title") \o Opt(s # << >>, "season") \o << "episode" >>
                    \o Opt(first = "episode", "title") \o Opt(p # NoneInt, "part")
                    \o Opt(y # NoneInt, "year"),
                TitleShow, e, s, p, y, << >>) :
              first \in {"title", "episode"},
              e \in {<< 5 >>, << 86, 13 >>},
              s \in {<< >>, << 0 >>, << 1 >>, << 2 >>},
              p \in {NoneInt, 2},
              y \in {NoneInt, 2020}}

\* what the tagger may return for the folder the file is in ...
FolderGuesses ==
    {EmptyGuess,
     Guess(<< "title" >>, TitleSeries, << >>, << >>, NoneInt, NoneInt, << >>),
     Guess(<< "title", "season" >>, TitleSeries, << >>, << 3 >>, NoneInt, NoneInt, << >>),
     Guess(<< "title", "year", "season", "part" >>, TitleSeries, << >>, << 3 >>, 1, 2019, << >>),
     Guess(<< "season", "part" >>, << >>, << >>, << 3 >>, 1, NoneInt, << >>),
     Guess(<< "release_group" >>, << >>, << >>, << >>, NoneInt, NoneInt, << >>)}

\* ... and for the folder above it
ParentGuesses ==
    {EmptyGuess,
     Guess(<< "title" >>, TitleAnime, << >>, << >>, NoneInt, NoneInt, << >>),
     Guess(<< "title", "year", "season", "part" >>, TitleAnime, << >>, << 4 >>, 3, 2018, << >>),
     Guess(<< "release_group" >>, << >>, << >>, << >>, NoneInt, NoneInt, << >>)}

\* filepath.replace("\\", "/").split("/"): a bare file name, a file in a folder, in
\* two folders, and in two folders under a root
PathParts ==
    {<< f >> : f \in FileGuesses}
    \cup {<< d, f >> : d \in FolderGuesses, f \in FileGuesses}
    \cup {<< a, d, f >> : a \in ParentGuesses, d \in FolderGuesses, f \in FileGuesses}
    \cup {<< EmptyGuess, a, d, f >> : a \in ParentGuesses, d \in FolderGuesses, f \in FileGuesses}

\* a call of the tagger on the folder at a depth
Consult(fn, depths) == [i \in DOMAIN depths |-> [fn |-> fn, depth |-> depths[i]]]

InitParser ==
    /\ guesses \in PathParts
    /\ consulted = << >>
    /\ file_info = FileInfo(NoneStr, NoneInt, NoneStr)
    /\ pc = "path"
    /\ outcome = NoneStr
    /\ posts = << >> /\ loaded = << >> /\ history = << >>
    /\ options = [o \in OptionNames |-> FALSE]
    /\ action = "update"
    /\ access_token = "token"
    /\ os_name = "posix"
    /\ list = [m \in MediaIds |-> NoEntry]
    /\ list_before = list
    /\ now = 0
    /\ cache = EmptyCache
    /\ cache_before = cache
    /\ filename = << >>
    /\ cache_entry = NoCacheEntry
    /\ result = NoInfo
    /\ entered = FALSE
    /\ updated = NoInfo
    /\ attempt = 0
    /\ mutations = << >>
    /\ response = NoEntry
    /\ opened = NoneInt
    /\ searches = 0
    /\ media = << >>
    /\ filtered = << >>
    /\ season_episode_info = NoSeason

Parsing == << options, action, access_token, os_name, list, list_before, now, cache,
              cache_before, filename, cache_entry, result, entered, updated, attempt,
              mutations, response, opened, searches, Resolver, posts, loaded, guesses,
              history >>

\* parse_filename line 76: fix_filename; without a title it prints and returns
FixFilename ==
    /\ pc = "path"
    /\ consulted' = Consult("fix_filename", fix_filename(guesses))
    /\ pc' = "fixed"
    /\ UNCHANGED << Parsing, file_info, outcome >>

\* parse_filename lines 77-171
ParseFilename ==
    /\ pc = "fixed"
    /\ file_info' = parse_filename(guesses).file_info
    /\ consulted' = consulted \o Consult("parse_filename", parse_filename(guesses).consulted)
    /\ pc' = "parsed"
    /\ outcome' = "FileInfo"
    /\ UNCHANGED Parsing

NextParser == FixFilename \/ ParseFilename

SpecParser == InitParser /\ [][NextParser]_vars

(***************************************************************************)
(* cache.json shared by two processes.  Each process runs the cache calls  *)
(* of one handle_filename: check_and_clean_cache, which loads the file     *)
(* into CacheManager._cache on first use and saves after a purge, and then *)
(* cache_to_file, or nothing when the run ends in an error.  save_cache    *)
(* is two steps, open(cache_path, "w"), which empties the file, and        *)
(* json.dump with the close, taken to replace the file's content; a file   *)
(* read while it is empty fails to parse and gives {}.  Each process       *)
(* records whether it loaded before any save began (early) and whether its *)
(* dump is the latest (last).                                              *)
(***************************************************************************)
Processes == {1, 2}

SharedPaths == {<< "anime", "Show", "e1.mkv" >>, << "anime", "Other", "e1.mkv" >>}

\* the (absolute_progress, result) a process caches for its file
ProcessWrite(path) ==
    IF path = << "anime", "Other", "e1.mkv" >>
    THEN [absolute_progress |-> 1, result |-> AnimeInfo(1, "Show", 1, 2, 1, "CURRENT")]
    ELSE [absolute_progress |-> 3, result |-> AnimeInfo(2, "Show 2", 1, 2, 1, "CURRENT")]

\* cache.json when the processes start, at 2 * CACHE_REFRESH_RATE: missing, or with
\* an entry written one or two lifetimes ago (the latter expired)
SharedFiles ==
    {EmptyCache}
    \cup {cache_to_file(EmptyCache, path, "Show", ProcessWrite(path).absolute_progress,
                       ProcessWrite(path).result, t) :
              path \in SharedPaths, t \in {0, CACHE_REFRESH_RATE}}

\* every use of the cache reads the file again
load_cache_Reread(memory, file) == file

\* load_cache: the file is read when _cache is None, never again
load_cache(memory, file) == IF memory.none THEN file ELSE memory.cache

InitShared ==
    /\ os_name = "posix"
    /\ now = 2 * CACHE_REFRESH_RATE
    /\ cache \in SharedFiles
    /\ cache_before = cache
    /\ loaded \in [Processes -> {[pc |-> "start", none |-> TRUE, cache |-> EmptyCache,
                                  path |-> path, saves |-> 0, early |-> FALSE, last |-> FALSE] :
                                     path \in SharedPaths}]
    /\ pc = "shared"
    /\ posts = << >> /\ guesses = << >> /\ consulted = << >> /\ history = << >>
    /\ options = [o \in OptionNames |-> FALSE]
    /\ action = "update"
    /\ access_token = "token"
    /\ list = [m \in MediaIds |-> NoEntry]
    /\ list_before = list
    /\ filename = << >>
    /\ file_info = FileInfo(NoneStr, NoneInt, NoneStr)
    /\ cache_entry = NoCacheEntry
    /\ result = NoInfo
    /\ entered = FALSE
    /\ updated = NoInfo
    /\ attempt = 0
    /\ mutations = << >>
    /\ response = NoEntry
    /\ outcome = NoneStr
    /\ opened = NoneInt
    /\ searches = 0
    /\ media = << >>
    /\ filtered = << >>
    /\ season_episode_info = NoSeason

Sharing == << options, action, access_token, os_name, list, list_before, now, cache_before,
              filename, file_info, cache_entry, result, entered, updated, attempt, mutations,
              response, outcome, opened, searches, pc, Resolver, posts, guesses, consulted,
              history >>

\* check_and_clean_cache lines 82-94: load_cache and the purge of _cache; a save
\* follows when something was purged
CheckCache(p) ==
    /\ loaded[p].pc = "start"
    /\ LET memory == load_cache(loaded[p], cache)
           cleaned == CleanCache(memory, now)
       IN loaded' = [loaded EXCEPT ![p] =
              [@ EXCEPT !.none = FALSE,
                        !.cache = cleaned,
                        !.early = \A q \in Processes : loaded[q].saves = 0,
                        !.pc = IF cleaned # memory THEN "clean_open" ELSE "run"]]
    /\ UNCHANGED << Sharing, cache >>

\* cache_to_file lines 33-50: the entry is put into _cache; save_cache follows
WriteCache(p) ==
    /\ loaded[p].pc = "run"
    /\ LET memory == load_cache(loaded[p], cache)
           w == ProcessWrite(loaded[p].path)
       IN loaded' = [loaded EXCEPT ![p] =
              [@ EXCEPT !.cache = cache_to_file(memory, loaded[p].path, "Show",
                                                w.absolute_progress, w.result, now),
                        !.pc = "write_open"]]
    /\ UNCHANGED << Sharing, cache >>

\* the run ends without cache_to_file
Exit(p) ==
    /\ loaded[p].pc = "run"
    /\ loaded' = [loaded EXCEPT ![p] = [@ EXCEPT !.pc = "done"]]
    /\ UNCHANGED << Sharing, cache >>

\* save_cache line 136: open(self.cache_path, "w")
OpenCache(p) ==
    /\ loaded[p].pc \in {"clean_open", "write_open"}
    /\ cache' = EmptyCache
    /\ loaded' = [loaded EXCEPT ![p] =
           [@ EXCEPT !.saves = @ + 1,
                     !.pc = IF loaded[p].pc = "clean_open" THEN "clean_dump" ELSE "write_dump"]]
    /\ UNCHANGED Sharing

\* save_cache lines 137-139: json.dump(cache, f) and the close
DumpCache(p) ==
    /\ loaded[p].pc \in {"clean_dump", "write_dump"}
    /\ cache' = loaded[p].cache
    /\ loaded' = [q \in Processes |->
           IF q = p
           THEN [loaded[q] EXCEPT !.last = TRUE,
                                  !.pc = IF loaded[p].pc = "clean_dump" THEN "run" ELSE "done"]
           ELSE [loaded[q] EXCEPT !.last = FALSE]]
    /\ UNCHANGED Sharing

NextShared ==
    \E p \in Processes :
        CheckCache(p) \/ WriteCache(p) \/ Exit(p) \/ OpenCache(p) \/ DumpCache(p)

SpecShared == InitShared /\ [][NextShared]_vars

(***************************************************************************)
(* Two invocations in a row for the files of one directory: main runs      *)
(* handle_filename once per invocation, cache.json and the viewer's list   *)
(* outlive the process, and between the two another client may raise the   *)
(* progress of an entry and the clock may pass the life of a cache entry.  *)
(* The service answers each request or refuses it (the retries of          *)
(* make_api_request are in Spec and SpecRequest).                          *)
(***************************************************************************)
RunNets == {"200", "4xx"}

RunEpisodes == 1 .. MaxEpisode

\* the viewer's list: nothing of the franchise on it; the one-episode "Show 3";
\* the two-episode "Show", alone, or completed and with its second season
RunLists ==
    {l \in [MediaIds -> ListEntries] :
        /\ l[3] # NoEntry =>
               l[1] = NoEntry /\ l[2] = NoEntry /\ l[3].progress <= Media(3).episodes
        /\ l[2] # NoEntry =>
               /\ l[1] = [status |-> "COMPLETED", progress |-> Media(1).episodes]
               /\ l[2] \in OtherSeasonEntries}

InitRuns ==
    /\ options \in [OptionNames -> BOOLEAN]
    /\ action = "update"
    /\ access_token = "token"
    /\ os_name = "posix"
    /\ list \in RunLists
    /\ now = 2 * CACHE_REFRESH_RATE
    /\ cache = EmptyCache
    /\ pc = "start"
    /\ filename = << >>
    /\ file_info = FileInfo(NoneStr, NoneInt, NoneStr)
    /\ cache_entry = NoCacheEntry
    /\ result = NoInfo
    /\ entered = FALSE
    /\ updated = NoInfo
    /\ attempt = 0
    /\ mutations = << >>
    /\ response = NoEntry
    /\ outcome = NoneStr
    /\ opened = NoneInt
    /\ searches = 0
    /\ list_before = list
    /\ cache_before = cache
    /\ media = << >>
    /\ filtered = << >>
    /\ season_episode_info = NoSeason
    /\ StandaloneIdle

\* what is kept of an invocation that is over
Invocation ==
    [file_info |-> file_info, outcome |-> outcome, mutations |-> mutations,
     list |-> list, cache |-> cache, now |-> now]

\* main is run again, at once or after the cache entries have expired: a new
\* AniListUpdater, with the cache.json and the list the first invocation left
Again(later) ==
    /\ pc = "done"
    /\ history = << >>
    /\ history' = << Invocation >>
    /\ now' = IF later THEN now + CACHE_REFRESH_RATE + 1 ELSE now
    /\ pc' = "start"
    /\ filename' = << >>
    /\ file_info' = FileInfo(NoneStr, NoneInt, NoneStr)
    /\ cache_entry' = NoCacheEntry
    /\ result' = NoInfo
    /\ entered' = FALSE
    /\ updated' = NoInfo
    /\ attempt' = 0
    /\ mutations' = << >>
    /\ response' = NoEntry
    /\ outcome' = NoneStr
    /\ opened' = NoneInt
    /\ searches' = 0
    /\ list_before' = list
    /\ cache_before' = cache
    /\ UNCHANGED << options, action, access_token, os_name, list, cache, Resolver,
                    posts, guesses, consulted, loaded >>

\* another client of the service (the web site, another player) raises the
\* progress of an entry between the two invocations
OtherClient(id, progress) ==
    /\ pc = "start"
    /\ history # << >>
    /\ list = history[1].list
    /\ list[id] # NoEntry
    /\ progress > list[id].progress
    /\ list' = [list EXCEPT ![id].progress = progress]
    /\ list_before' = list'
    /\ UNCHANGED << Config, Resolver, Standalone, cache, pc, filename, file_info, cache_entry,
                    result, entered, updated, attempt, mutations, response, outcome, opened,
                    searches, cache_before >>

NextRuns ==
    \/ \E path \in Paths, name \in Names, raw \in RunEpisodes : Start(path, name, raw)
    \/ \E net \in RunNets : SearchOnList(net)
    \/ \E net \in RunNets : SearchAll(net)
    \/ UpdateEpisodeCount
    \/ \E net \in RunNets : AddAnimeToList(net)
    \/ \E net \in RunNets : RewatchStep1(net)
    \/ \E net \in RunNets : RewatchStep2(net)
    \/ \E net \in RunNets : SaveProgress(net)
    \/ \E later \in BOOLEAN : Again(later)
    \/ \E id \in MediaIds : \E progress \in 1 .. Media(id).episodes : OtherClient(id, progress)

SpecRuns == InitRuns /\ [][NextRuns]_vars

(***************************************************************************)
(* The claims.  "The reconciler" is update_episode_count in a run whose    *)
(* action is 'update'; entered says that it has been called, and result    *)
(* is the AnimeInfo it was called with.                                    *)
(***************************************************************************)
Reconciled == entered /\ action = "update" /\ result.anime_id # NoneInt

Refusals == {"NotInList", "NotNew", "NotModifiable"}

\* C1: for an entry that is CURRENT or PLANNING a mutation is issued only if the
\* observed episode is strictly greater than the current progress, and an
\* observed episode that is not greater ends the call with NotNew, nothing sent.
C1_NotNew ==
    (Reconciled /\ result.current_status \in {"CURRENT", "PLANNING"}) =>
        /\ result.current_progress # NoneInt
        /\ mutations # << >> => result.file_progress > result.current_progress
        /\ result.file_progress <= result.current_progress =>
               pc = "done" /\ outcome = "NotNew" /\ mutations = << >>

C1_Witness ==
    /\ Reconciled /\ result.current_status = "CURRENT"
    /\ result.current_progress = 2 /\ result.file_progress = 2
    /\ outcome = "NotNew"

\* C2: a run that ends in a refusal (NotInList, NotNew, NotModifiable) has issued
\* no mutation request, and the viewer's list is as it was when the run started.
C2_RefusalSendsNothing ==
    (pc = "done" /\ outcome \in Refusals) => mutations = << >> /\ list = list_before

C2_Witness ==
    /\ pc = "done" /\ outcome = "NotModifiable" /\ action = "update"
    /\ list[result.anime_id].status = "DROPPED"

\* C3: COMPLETED, observed episode 1, SET_COMPLETED_TO_REWATCHING_ON_FIRST_EPISODE:
\* two mutations are issued, {status REPEATING, progress 0} and then {progress 1}
\* without a status, and the state reported is {REPEATING, 1}.
C3_Rewatch ==
    (/\ Reconciled /\ result.current_status = "COMPLETED" /\ result.file_progress = 1
     /\ options["SET_COMPLETED_TO_REWATCHING_ON_FIRST_EPISODE"]) =>
        /\ Len(mutations) \in {1, 2}
        /\ mutations[1].variables = Variables(result.anime_id, 0, "REPEATING")
        /\ Len(mutations) = 1 <=> pc = "mut_rewatch1"
        /\ Len(mutations) = 2 => mutations[2].variables = Variables(result.anime_id, 1, NoneStr)
        /\ pc = "done" => outcome \in {"updated", "UpdateFailed"}
        /\ outcome = "updated" =>
               updated.current_status = "REPEATING" /\ updated.current_progress = 1

C3_Witness ==
    /\ Reconciled /\ result.current_status = "COMPLETED" /\ result.file_progress = 1
    /\ options["SET_COMPLETED_TO_REWATCHING_ON_FIRST_EPISODE"]
    /\ pc = "done" /\ outcome = "updated" /\ Len(mutations) = 2
    /\ list[result.anime_id] = [status |-> "REPEATING", progress |-> 1]

\* C4: a SaveMediaListEntry mutation goes to the service at most once: a 5xx
\* response, a timeout or a connection error is not followed by a second send.
C4_MutationSentOnce ==
    \A i \in DOMAIN mutations : mutations[i].sends <= 1

\* C5: the mutation of a CURRENT or REPEATING entry carries the observed episode as
\* its progress, and the status COMPLETED exactly when the observed episode is the
\* last one and the option of the entry's own status is enabled; otherwise the
\* status sent is the entry's status.
C5_CompletionOverride ==
    (Reconciled /\ result.current_status \in {"CURRENT", "REPEATING"} /\ mutations # << >>) =>
        LET v == mutations[1].variables
            last == result.file_progress = result.total_episodes
            enabled == IF result.current_status = "CURRENT"
                       THEN options["SET_TO_COMPLETED_AFTER_LAST_EPISODE_CURRENT"]
                       ELSE options["SET_TO_COMPLETED_AFTER_LAST_EPISODE_REWATCHING"]
        IN /\ Len(mutations) = 1
           /\ v.mediaId = result.anime_id
           /\ v.progress = result.file_progress
           /\ v.status = IF last /\ enabled THEN "COMPLETED" ELSE result.current_status

C5_Witness ==
    /\ Reconciled /\ result.current_status = "CURRENT"
    /\ result.current_progress = 1 /\ result.total_episodes = 2 /\ result.file_progress = 2
    /\ options["SET_TO_COMPLETED_AFTER_LAST_EPISODE_CURRENT"]
    /\ ~options["SET_TO_COMPLETED_AFTER_LAST_EPISODE_REWATCHING"]
    /\ outcome = "updated"
    /\ mutations[1].variables = Variables(result.anime_id, 2, "COMPLETED")
    /\ list[result.anime_id] = [status |-> "COMPLETED", progress |-> 2]

\* C6: the AnimeInfo returned by a successful update carries the progress and the
\* status the service sent back for the last mutation.
C6_ReturnsEcho ==
    (pc = "done" /\ outcome = "updated") =>
        /\ updated.current_progress = response.progress
        /\ updated.current_status = response.status

\* C7: an entry found by the search and absent from the list, with
\* ADD_ENTRY_IF_MISSING: one mutation {status CURRENT, progress observed episode},
\* and the state that results is {CURRENT, observed episode}.
C7_AddEntry ==
    (/\ Reconciled /\ result.current_progress = NoneInt /\ result.current_status = NoneStr
     /\ options["ADD_ENTRY_IF_MISSING"]) =>
        /\ Len(mutations) = 1
        /\ mutations[1].variables = Variables(result.anime_id, result.file_progress, "CURRENT")
        /\ pc = "done" => outcome \in {"updated", "AddFailed"}
        /\ outcome = "updated" =>
               /\ updated.current_status = "CURRENT"
               /\ updated.current_progress = result.file_progress
               /\ list_before[result.anime_id] = NoEntry =>
                      list[result.anime_id] =
                          [status |-> "CURRENT", progress |-> result.file_progress]

C7_Witness ==
    /\ Reconciled /\ result.current_progress = NoneInt /\ result.current_status = NoneStr
    /\ options["ADD_ENTRY_IF_MISSING"]
    /\ list_before[result.anime_id] = NoEntry
    /\ outcome = "updated" /\ Len(mutations) = 1
    /\ list[result.anime_id] = [status |-> "CURRENT", progress |-> result.file_progress]

\* C8: the reconciler fails with NotInList when the id is null, and when the entry
\* is absent from the list (progress and status null) and ADD_ENTRY_IF_MISSING is
\* disabled; nothing is sent.
C8_NotInList ==
    (entered /\ (\/ result.anime_id = NoneInt
                 \/ /\ action = "update"
                    /\ result.current_progress = NoneInt /\ result.current_status = NoneStr
                    /\ ~options["ADD_ENTRY_IF_MISSING"])) =>
        pc = "done" /\ outcome = "NotInList" /\ mutations = << >>

C8_Witness ==
    /\ entered /\ action = "update" /\ result.anime_id # NoneInt
    /\ result.current_progress = NoneInt /\ result.current_status = NoneStr
    /\ ~options["ADD_ENTRY_IF_MISSING"]
    /\ outcome = "NotInList"

\* C9: DROPPED, PAUSED, REPEATING without UPDATE_PROGRESS_WHEN_REWATCHING, and
\* COMPLETED outside the first-episode rewatch: NotModifiable, for every observed
\* episode and every setting of the other options.
C9_NotModifiable ==
    (/\ Reconciled
     /\ \/ result.current_status \in {"DROPPED", "PAUSED"}
        \/ result.current_status = "REPEATING" /\ ~options["UPDATE_PROGRESS_WHEN_REWATCHING"]
        \/ /\ result.current_status = "COMPLETED"
           /\ ~(/\ result.file_progress = 1
                /\ options["SET_COMPLETED_TO_REWATCHING_ON_FIRST_EPISODE"])) =>
        pc = "done" /\ outcome = "NotModifiable" /\ mutations = << >>

C9_Witness ==
    /\ Reconciled /\ result.current_status = "PAUSED"
    /\ result.file_progress > result.current_progress
    /\ options["ADD_ENTRY_IF_MISSING"] /\ options["UPDATE_PROGRESS_WHEN_REWATCHING"]
    /\ outcome = "NotModifiable"

\* C10: REPEATING with UPDATE_PROGRESS_WHEN_REWATCHING: a mutation is issued, its
\* progress the observed episode and its status REPEATING, unless the completion
\* override makes it COMPLETED.
C10_Rewatching ==
    (/\ Reconciled /\ result.current_status = "REPEATING"
     /\ options["UPDATE_PROGRESS_WHEN_REWATCHING"]) =>
        /\ Len(mutations) = 1
        /\ mutations[1].variables.progress = result.file_progress
        /\ mutations[1].variables.status =
               IF /\ result.file_progress = result.total_episodes
                  /\ options["SET_TO_COMPLETED_AFTER_LAST_EPISODE_REWATCHING"]
               THEN "COMPLETED" ELSE "REPEATING"
        /\ pc = "done" => outcome \in {"updated", "UpdateFailed"}

C10_Witness ==
    /\ Reconciled /\ result.current_status = "REPEATING"
    /\ options["UPDATE_PROGRESS_WHEN_REWATCHING"]
    /\ result.file_progress <= result.current_progress
    /\ outcome = "updated"
    /\ mutations[1].variables = Variables(result.anime_id, result.file_progress, "REPEATING")
    /\ list[result.anime_id] = [status |-> "REPEATING", progress |-> result.file_progress]

\* the unexpired entry of cache.json, as it was when the run started, for the
\* directory and the guessed name of the file
CachedBefore ==
    LET k == hash_path(dirname(filename))
    IN IF /\ pc # "start" /\ k \in DOMAIN cache_before
          /\ cache_before[k].ttl >= now
          /\ cache_before[k].guessed_name = file_info.name
       THEN {cache_before[k]} ELSE {}

\* C11: a 'launch' run issues no mutation and leaves the viewer's list alone; with
\* an unexpired cache entry that has an id for the file's directory and guessed
\* name, the run ends by opening that id's page, no search and no mutation sent.
C11_Launch ==
    action = "launch" =>
        /\ mutations = << >> /\ list = list_before
        /\ \A e \in CachedBefore :
               e.anime_id \notin {NoneInt, 0} =>
                   /\ pc = "done" /\ outcome = "launched" /\ opened = e.anime_id
                   /\ searches = 0

C11_Witness ==
    /\ action = "launch" /\ pc = "done" /\ outcome = "launched"
    /\ \E e \in CachedBefore : e.anime_id = 2 /\ opened = 2
    /\ searches = 0 /\ mutations = << >>
    /\ options["ADD_ENTRY_IF_MISSING"]

\* C12: update_episode_count is entered with an observed episode relative to the
\* entry's own numbering: with a non-null id and a known total, the observed
\* episode is between 1 and the total, whichever path built the AnimeInfo.
C12_RelativeEpisode ==
    (entered /\ result.anime_id # NoneInt /\ result.total_episodes # NoneInt) =>
        1 <= result.file_progress /\ result.file_progress <= result.total_episodes

(***************************************************************************)
(* The resolver's claims, stated over the drawn response and the values    *)
(* its functions returned.                                                 *)
(***************************************************************************)
\* the episode count the walk uses for a medium: 12 when the count is unset
Count(m) == IF m.episodes = NoneInt THEN 12 ELSE m.episodes

\* the episodes of the media before the i-th
RECURSIVE Before(_, _)
Before(seq, i) == IF i = 1 THEN 0 ELSE Before(seq, i - 1) + Count(seq[i - 1])

Walked == pc \in {"resolved", "guessed"}

\* C13: find_season_and_episode returns the first entry, in the given order, whose
\* accumulated count (12 for an unset count) reaches the absolute episode, with
\* relative episode = absolute episode - episodes accumulated before it; for an
\* absolute episode >= 1 that is between 1 and the entry's count.
C13_Walk ==
    Walked =>
        \A i \in DOMAIN media :
            (/\ Before(media, i) + Count(media[i]) >= file_info.episode
             /\ \A j \in 1 .. i - 1 : Before(media, j) + Count(media[j]) < file_info.episode) =>
                /\ season_episode_info.season_id = media[i].id
                /\ season_episode_info.season_title = media[i].title
                /\ season_episode_info.progress = media[i].mediaListEntry.progress
                /\ season_episode_info.episodes = media[i].episodes
                /\ season_episode_info.relative_episode = file_info.episode - Before(media, i)
                /\ 1 <= season_episode_info.relative_episode
                /\ season_episode_info.relative_episode <= Count(media[i])

C13_Witness ==
    /\ Walked /\ Len(media) = 2
    /\ media[1].episodes = NoneInt /\ media[2].episodes = 2
    /\ file_info.episode = 13
    /\ season_episode_info = SeasonEpisodeInfo(2, "Show 2", NoneInt, 2, 1)

\* C14: find_season_and_episode returns the all-null resolution exactly when no
\* entry matches (an empty list, or an absolute episode above the sum of the
\* defaulted counts), and then all five fields are null.
C14_NoMatch ==
    Walked =>
        LET total == Before(media, Len(media) + 1)
            unmatched == file_info.episode > total
        IN /\ unmatched <=> season_episode_info.season_id = NoneInt
           /\ unmatched <=> season_episode_info.relative_episode = NoneInt
           /\ unmatched =>
                  season_episode_info =
                      [season_id |-> NoneInt, season_title |-> NoneStr, progress |-> NoneInt,
                       episodes |-> NoneInt, relative_episode |-> NoneInt]

C14_Witness ==
    /\ Walked /\ Len(media) = 2
    /\ media[1].episodes = 1 /\ media[2].episodes = 2
    /\ file_info.episode = 12
    /\ season_episode_info.season_id = NoneInt /\ season_episode_info.relative_episode = NoneInt

\* C15: when the resolver is run and returns the all-null resolution, the AnimeInfo
\* of get_anime_info_and_progress is that of the entry matched first: its id,
\* its progress, its status and its episode count.
C15_KeepsOriginal ==
    (/\ pc = "guessed"
     /\ media[1].episodes # NoneInt /\ file_info.episode > media[1].episodes
     /\ find_season_and_episode(filter_valid_seasons(media), file_info.episode) = NoSeason) =>
        /\ result.anime_id = media[1].id
        /\ result.current_progress = media[1].mediaListEntry.progress
        /\ result.current_status = media[1].mediaListEntry.status
        /\ result.total_episodes = media[1].episodes

\* what the filter is to keep
Keep(m) ==
    /\ m.format = "TV"
    /\ \/ m.duration # NoneInt /\ m.duration > 21
       \/ m.duration = NoneInt /\ m.status = "RELEASING"

\* C16: filter_valid_seasons retains an entry if and only if its format is TV and
\* its duration is above 21, or unset with the release status RELEASING; nothing
\* else is in its result, and nothing twice.
C16_Filter ==
    pc \in {"filtered", "resolved", "guessed"} =>
        /\ \A i \in DOMAIN media :
               Keep(media[i]) <=> \E j \in DOMAIN filtered : filtered[j] = media[i]
        /\ \A j \in DOMAIN filtered : \E i \in DOMAIN media : media[i] = filtered[j]
        /\ \A j, k \in DOMAIN filtered : filtered[j] = filtered[k] => j = k

C16_Witness ==
    /\ pc = "filtered" /\ Len(media) = 2
    /\ media[1].format = "TV" /\ media[1].duration = 21 /\ media[1].status = "RELEASING"
    /\ media[2].format = "TV" /\ media[2].duration = NoneInt /\ media[2].status = "RELEASING"
    /\ filtered = << media[2] >>

Rank(m) ==
    CASE m.season = "WINTER" -> 1
      [] m.season = "SPRING" -> 2
      [] m.season = "SUMMER" -> 3
      [] m.season = "FALL" -> 4
      [] OTHER -> 5

\* a is not after b: by year, an unknown year last, then by season
NotAfter(a, b) ==
    IF a.seasonYear # NoneInt /\ b.seasonYear # NoneInt
    THEN a.seasonYear < b.seasonYear \/ (a.seasonYear = b.seasonYear /\ Rank(a) <= Rank(b))
    ELSE IF a.seasonYear # NoneInt THEN TRUE
    ELSE IF b.seasonYear # NoneInt THEN FALSE
    ELSE Rank(a) <= Rank(b)

\* C17: the entries handed to the resolver are in ascending order of (seasonYear,
\* season) with WINTER < SPRING < SUMMER < FALL < unknown season, every entry of
\* unknown year after every entry of known year.
C17_Sorted ==
    pc \in {"filtered", "resolved", "guessed"} =>
        \A i, j \in DOMAIN filtered :
            i < j =>
                /\ NotAfter(filtered[i], filtered[j])
                /\ filtered[i].seasonYear = NoneInt => filtered[j].seasonYear = NoneInt

C17_Witness ==
    /\ pc = "filtered" /\ Len(media) = 2 /\ Len(filtered) = 2
    /\ media[1].seasonYear = NoneInt /\ media[1].season = "FALL"
    /\ media[2].seasonYear = 2020 /\ media[2].season = NoneStr
    /\ filtered = << media[2], media[1] >>

\* C18: on a cache hit of an 'update' run the relative episode is the file's
\* episode - (cached absolute - cached relative); when it is between 1 and the
\* cached total the AnimeInfo is rebuilt from the entry and no search is sent,
\* and otherwise, an unknown total included, the run searches.
C18_CacheHit ==
    action = "update" =>
        \A e \in CachedBefore :
            \E absolute_cached, relative_cached \in 0 .. 2 * MaxEpisode :
                /\ e.relative_progress = FormatMapping(absolute_cached, relative_cached)
                /\ LET relative_new == file_info.episode - (absolute_cached - relative_cached)
                   IN IF /\ 1 <= relative_new
                         /\ e.total_episodes # NoneInt /\ relative_new <= e.total_episodes
                      THEN /\ searches = 0
                           /\ result = AnimeInfo(e.anime_id, e.guessed_name, e.current_progress,
                                                 e.total_episodes, relative_new, e.current_status)
                      ELSE searches >= 1

C18_Witness ==
    /\ action = "update" /\ entered
    /\ \E e \in CachedBefore : e.relative_progress = << "4", "-", ">", "2" >> /\ e.anime_id = 2
    /\ file_info.episode = 3 /\ result.file_progress = 1 /\ result.anime_id = 2
    /\ searches = 0

(***************************************************************************)
(* The cache's claims, stated over cache.json before and after the last    *)
(* operation.                                                              *)
(***************************************************************************)
\* C19: every check_and_clean_cache removes all the entries whose expiry time has
\* elapsed, whatever directory they belong to, and never returns one, after any
\* sequence of writes, reads and clock advances.
C19_Purge ==
    pc = "read" =>
        /\ \A k \in DOMAIN cache : cache[k].ttl >= now
        /\ \A k \in DOMAIN cache_before : cache_before[k].ttl < now => k \notin DOMAIN cache
        /\ cache_entry # NoCacheEntry => cache_entry.ttl >= now

C19_Witness ==
    /\ pc = "read" /\ cache_entry = NoCacheEntry
    /\ Cardinality(DOMAIN cache_before) = 2
    /\ \A k \in DOMAIN cache_before :
           cache_before[k].ttl < now /\ cache_before[k].guessed_name = file_info.name
    /\ hash_path(dirname(filename)) \in DOMAIN cache_before
    /\ cache = EmptyCache

\* the directory a file is in, for the files of CachePaths
Directory(path) ==
    CASE path = << "anime", "Show", "e1.mkv" >> -> "/anime/Show"
      [] path = << "anime", "", "Other", ".", "..", "Show", "e2.mkv" >> -> "/anime/Show"
      [] path = << "anime", "Other", "e1.mkv" >> -> "/anime/Other"
      [] path = << "Anime", "Show", "e1.mkv" >> ->
             IF os_name = "nt" THEN "/anime/Show" ELSE "/Anime/Show"

\* C20: two files have the same cache key exactly when they are in the same
\* directory, so the cache holds at most one entry per directory and a write
\* replaces the directory's entry; a read returns the directory's unexpired entry
\* if and only if its guessed_name equals the name guessed now, and a read with
\* another name returns nothing and leaves the entry in place.
C20_DirectoryKey ==
    LET k == hash_path(dirname(filename))
        usable == k \in DOMAIN cache_before /\ cache_before[k].ttl >= now
    IN /\ \A p, q \in CachePaths :
              hash_path(dirname(p)) = hash_path(dirname(q)) <=> Directory(p) = Directory(q)
       /\ Cardinality(DOMAIN cache) <= Cardinality({Directory(p) : p \in CachePaths})
       /\ pc = "written" =>
              /\ DOMAIN cache = DOMAIN cache_before \cup {k}
              /\ cache[k].guessed_name = file_info.name
              /\ \A h \in DOMAIN cache_before : h # k => cache[h] = cache_before[h]
       /\ pc = "read" =>
              /\ cache_entry # NoCacheEntry <=>
                     (usable /\ cache_before[k].guessed_name = file_info.name)
              /\ cache_entry # NoCacheEntry => cache_entry = cache_before[k]
              /\ usable => k \in DOMAIN cache /\ cache[k] = cache_before[k]

C20_Witness ==
    /\ pc = "read" /\ cache_entry = NoCacheEntry
    /\ filename = << "anime", "", "Other", ".", "..", "Show", "e2.mkv" >>
    /\ file_info.name = "Show"
    /\ hash_path(dirname(<< "anime", "Show", "e1.mkv" >>)) \in DOMAIN cache
    /\ cache[hash_path(dirname(<< "anime", "Show", "e1.mkv" >>))].guessed_name = "show"
    /\ cache[hash_path(dirname(<< "anime", "Show", "e1.mkv" >>))].ttl = now
    /\ Cardinality(DOMAIN cache) = 2


\* C21: a check_and_clean_cache that follows a cache_to_file at once, for a file of
\* the same directory and with the same guessed name, returns an entry whose
\* anime_id, current_progress, total_episodes and current_status are those of the
\* result that was written.
C21_RoundTrip ==
    [][(/\ pc = "written" /\ pc' = "read"
        /\ hash_path(dirname(filename')) = hash_path(dirname(filename))
        /\ file_info'.name = file_info.name)
       => /\ cache_entry' # NoCacheEntry
          /\ cache_entry'.anime_id = result.anime_id
          /\ cache_entry'.current_progress = result.current_progress
          /\ cache_entry'.total_episodes = result.total_episodes
          /\ cache_entry'.current_status = result.current_status]_vars

\* the entry written at this very time, for an anime that is on the list, read back
\* through the other spelling of the directory
C21_Witness ==
    /\ pc = "read" /\ cache_entry # NoCacheEntry
    /\ filename = << "anime", "", "Other", ".", "..", "Show", "e2.mkv" >>
    /\ cache_entry.ttl = now + CACHE_REFRESH_RATE
    /\ result = AnimeInfo(2, "Show 2", 1, 2, 1, "CURRENT")
    /\ cache_entry.anime_id = 2 /\ cache_entry.current_progress = 1
    /\ cache_entry.total_episodes = 2 /\ cache_entry.current_status = "CURRENT"


(***************************************************************************)
(* The request loop's claim, stated over the passes of one call.           *)
(***************************************************************************)
\* the outcomes of requests.post after which the loop may go round again: a 5xx
\* response, a timeout or a connection error (whether or not the service had
\* served the request)
Retryable == {"5xx", "timeout", "lost_reply"}

\* C22: make_api_request makes at most MAX_RETRIES + 1 = 3 attempts and has
\* returned after the third; an attempt is followed by another only after a 5xx
\* response, a timeout or a connection error; the call returns the body on the
\* first 200 response, and returns no response at once on any other status code or
\* request error, and on a third transient failure.
C22_Attempts ==
    /\ MAX_RETRIES + 1 = 3
    /\ Len(posts) <= MAX_RETRIES + 1
    /\ Len(posts) = attempt + (IF pc = "returned" THEN 1 ELSE 0)
    /\ \A i \in 1 .. Len(posts) - 1 : posts[i] \in Retryable
    /\ pc = "request" =>
           /\ Len(posts) <= MAX_RETRIES
           /\ \A i \in 1 .. Len(posts) : posts[i] \in Retryable
    /\ pc = "returned" =>
           LET last == posts[Len(posts)]
           IN /\ outcome = "json" <=> last = "200"
              /\ outcome = "none" <=>
                     \/ last \notin Retryable \cup {"200"}
                     \/ last \in Retryable /\ Len(posts) = MAX_RETRIES + 1

\* a call that gave up at once on a 4xx response that followed a 5xx one
C22_Witness ==
    /\ pc = "returned" /\ outcome = "none"
    /\ posts = << "5xx", "4xx" >>
    /\ mutations # << >> /\ mutations[1].sends = 2


(***************************************************************************)
(* The exit status.                                                        *)
(***************************************************************************)
\* C23: a run in which a mutation failed (make_api_request returned no response
\* for it) exits with a non-zero status, like every run that ends in an error, and
\* a run exits with status 0 only when the page was opened or when the update
\* succeeded, every mutation it issued having been answered.
C23_ExitStatus ==
    pc = "done" =>
        /\ (\E i \in DOMAIN mutations : mutations[i].returned = "none") => exit_status # 0
        /\ exit_status = 0 =>
               \/ action = "launch" /\ opened # NoneInt
               \/ /\ action = "update" /\ mutations # << >>
                  /\ \A i \in DOMAIN mutations : mutations[i].returned = "json"


(***************************************************************************)
(* The parser's claims, stated over the path drawn (guesses), the FileInfo *)
(* returned (file_info) and the folders handed to the tagger (consulted).  *)
(***************************************************************************)
\* the tagger's output for the file, and for the folder at a depth (2: the folder the
\* file is in, 3: the one above), the empty dict where the path has no such folder
File == guesses[Len(guesses)]

Folder(depth) == IF Len(guesses) >= depth THEN guesses[Len(guesses) - depth + 1] ELSE EmptyGuess

\* a non-empty title found in the folder at a depth
FolderTitle(depth) == Has(Folder(depth), "title") /\ Folder(depth).title # << >>

NoTitleAnywhere == ~Has(File, "title") /\ ~Has(Folder(2), "title") /\ ~Has(Folder(3), "title")

\* the depths of the folders parse_filename handed to the tagger after fix_filename
ParseDepths ==
    {consulted[i].depth : i \in {j \in DOMAIN consulted : consulted[j].fn = "parse_filename"}}

Prefix(p, s) == Len(p) <= Len(s) /\ SubSeq(s, 1, Len(p)) = p

Suffix(p, s) == Len(p) <= Len(s) /\ SubSeq(s, Len(s) - Len(p) + 1, Len(s)) = p

\* C24: parsing ends in a ParseError exactly when neither the file name nor the
\* names of the two folders above it yield a title, and no FileInfo is ever
\* returned for such a path.
C24_ParseError ==
    /\ pc \in {"fixed", "parsed"} => (outcome = "ParseError" <=> NoTitleAnywhere)
    /\ pc = "parsed" => ~NoTitleAnywhere

\* C25: when the file's title is not trusted, the name is the title of the folder
\* the file is in if the tagger finds a non-empty one there, the folder above is
\* handed to the tagger only when the first one gave no title, and the part and the
\* year of the file's guess are kept when it has them.
C25_FolderDepths ==
    (pc = "parsed" /\ ~title_in_filename(File)) =>
        /\ FolderTitle(2) => Prefix(Folder(2).title, file_info.name) /\ 3 \notin ParseDepths
        /\ 3 \in ParseDepths => ~FolderTitle(2)
        /\ Has(File, "year") => file_info.year = FormatInt(File.year)
        /\ Has(File, "part") =>
               Suffix(<< " ", "P", "a", "r", "t", " " >> \o FormatInt(File.part), file_info.name)


\* the name starts with the title the tagger found in the file name (no folder of
\* the paths drawn has that title)
NameFromFile == Has(File, "title") /\ Prefix(File.title, file_info.name)

\* a key of the file's guess found after another key
Later(key) == Has(File, key) /\ KeyIndex(File, key) > 0

\* C26 as stated: the title is taken from the file's guess only if the episode
\* key's position in it is greater than 0 and the season key's position is greater
\* than 0 or there is no season; and when title, episode and season are all at a
\* position greater than 0, no folder is handed to the tagger.
C26_TrustedOnlyIf ==
    pc = "parsed" =>
        /\ NameFromFile => Later("episode") /\ (Later("season") \/ ~Has(File, "season"))
        /\ (Later("title") /\ Later("episode") /\ Later("season")) => consulted = << >>

\* C26, amended: the title is taken from the file's guess only if there is no
\* episode or the episode key's position is greater than 0, and there is no season
\* or the season key's position is greater than 0; and when title, episode and
\* season are all at a position greater than 0, no folder is handed to the tagger.
C26_Trusted ==
    pc = "parsed" =>
        /\ NameFromFile =>
               /\ Later("episode") \/ ~Has(File, "episode")
               /\ Later("season") \/ ~Has(File, "season")
        /\ (Later("title") /\ Later("episode") /\ Later("season")) =>
               consulted = << >> /\ NameFromFile

\* a file whose guess has a release group, the season, the episode and the title, in
\* two folders that both have a title
C26_Witness ==
    /\ pc = "parsed" /\ consulted = << >>
    /\ File.keys = << "release_group", "season", "episode", "title" >>
    /\ FolderTitle(2) /\ FolderTitle(3)
    /\ file_info.name = TitleShow \o << " ", "S", "e", "a", "s", "o", "n", " ", "2" >>

\* the titles of the paths drawn, and no title
Bases == {<< >>, TitleShow, TitleSeries, TitleAnime}

\* C27: when the tagger returns several episode values, the episode is the last
\* one, and the earlier ones, in order and joined by spaces, follow the title in the
\* name after a space, before any season or part; [86, 13] gives episode 13, and
\* with no season and no part the name ends in " 86".
C27_Remaining ==
    (pc = "parsed" /\ Has(File, "episode") /\ Len(File.episode) > 1) =>
        LET earlier == SubSeq(File.episode, 1, Len(File.episode) - 1)
            appended == << " " >> \o Join(earlier)
            tail(base) == SubSeq(file_info.name, Len(base) + Len(appended) + 1,
                                 Len(file_info.name))
        IN /\ file_info.episode = File.episode[Len(File.episode)]
           /\ \E base \in Bases :
                  /\ Prefix(base \o appended, file_info.name)
                  /\ \/ tail(base) = << >>
                     \/ Prefix(<< " ", "S", "e", "a", "s", "o", "n", " " >>, tail(base))
                     \/ Prefix(<< " ", "P", "a", "r", "t", " " >>, tail(base))
           /\ File.episode = << 86, 13 >> =>
                  /\ file_info.episode = 13
                  /\ (ParseDepths = {} /\ ~Has(File, "season") /\ ~Has(File, "part")) =>
                         Suffix(<< " ", "8", "6" >>, file_info.name)
           /\ File.episode = << 1, 2, 3 >> =>
                  \E base \in Bases : Prefix(base \o << " ", "1", " ", "2" >>, file_info.name)

C27_Witness ==
    /\ pc = "parsed"
    /\ Has(File, "episode") /\ File.episode = << 86, 13 >>
    /\ file_info.episode = 13
    /\ file_info.name = TitleShow \o << " ", "8", "6" >>

\* C28: the episode returned is at least 1: it is the last value of the episode key;
\* without that key, the number an all-digit episode_title spells; without either,
\* the last value of a multi-valued season; and 1 when none of them gives a number
\* other than 0.  A multi-valued season keeps its first value as the season.
C28_Episode ==
    pc = "parsed" =>
        LET positive(n) == IF n = 0 THEN 1 ELSE n
            digits == Has(File, "episode_title") /\ isdigit(File.episode_title)
            seasons == Has(File, "season") /\ Len(File.season) > 1
        IN /\ file_info.episode >= 1
           /\ Has(File, "episode") =>
                  file_info.episode = positive(File.episode[Len(File.episode)])
           /\ (~Has(File, "episode") /\ digits) =>
                  file_info.episode = positive(ParseNat(File.episode_title))
           /\ (~Has(File, "episode") /\ ~digits /\ seasons) =>
                  file_info.episode = positive(File.season[Len(File.season)])
           /\ (~Has(File, "episode") /\ ~digits /\ ~seasons) => file_info.episode = 1
           /\ (seasons /\ File.season[1] > 1 /\ ~Has(File, "part") /\ ParseDepths = {}) =>
                  Suffix(<< " ", "S", "e", "a", "s", "o", "n", " " >> \o FormatInt(File.season[1]),
                         file_info.name)

\* no episode key, a title of the episode that is no number, and the seasons [2, 3]
C28_Witness ==
    /\ pc = "parsed"
    /\ File.keys = << "title", "season", "episode_title" >>
    /\ File.season = << 2, 3 >> /\ ~isdigit(File.episode_title)
    /\ file_info.episode = 3
    /\ file_info.name = TitleShow \o << " ", "S", "e", "a", "s", "o", "n", " ", "2" >>


\* the season and the part the parser ends up with, as strings, "" for none: those
\* of the file's guess or else of the first folder handed to the tagger that has one
KnownSeason ==
    IF Has(File, "season") THEN FormatInt(File.season[1])
    ELSE IF 2 \in ParseDepths /\ Has(Folder(2), "season") THEN FormatInt(Folder(2).season[1])
    ELSE IF 3 \in ParseDepths /\ Has(Folder(3), "season") THEN FormatInt(Folder(3).season[1])
    ELSE << >>

KnownPart ==
    IF Has(File, "part") THEN FormatInt(File.part)
    ELSE IF 2 \in ParseDepths /\ Has(Folder(2), "part") THEN FormatInt(Folder(2).part)
    ELSE IF 3 \in ParseDepths /\ Has(Folder(3), "part") THEN FormatInt(Folder(3).part)
    ELSE << >>

\* the earlier episode numbers of a list, as appended to the name
AppendedEpisodes ==
    IF Has(File, "episode") /\ Len(File.episode) > 1
    THEN << " " >> \o Join(SubSeq(File.episode, 1, Len(File.episode) - 1))
    ELSE << >>

AppendedPart == IF KnownPart # << >> THEN << " ", "P", "a", "r", "t", " " >> \o KnownPart ELSE << >>

\* C29 as stated: the name is a title followed by the remaining episode numbers,
\* then " Season {n}" when the season is greater than 1 or a part exists, then
\* " Part {n}" exactly when a part exists.
C29_AssemblyAsStated ==
    pc = "parsed" =>
        LET season_appended ==
                IF (KnownSeason # << >> /\ ParseInt(KnownSeason) > 1) \/ KnownPart # << >>
                THEN << " ", "S", "e", "a", "s", "o", "n", " " >> \o KnownSeason
                ELSE << >>
        IN \E base \in Bases :
               file_info.name = base \o AppendedEpisodes \o season_appended \o AppendedPart

\* C29, amended: the name is a title followed by the remaining episode numbers,
\* then " Season {n}" when a season is known and it is greater than 1 or a part
\* exists, then " Part {n}" exactly when a part exists.
C29_Assembly ==
    pc = "parsed" =>
        LET season_appended ==
                IF KnownSeason # << >> /\ (ParseInt(KnownSeason) > 1 \/ KnownPart # << >>)
                THEN << " ", "S", "e", "a", "s", "o", "n", " " >> \o KnownSeason
                ELSE << >>
        IN \E base \in Bases :
               file_info.name = base \o AppendedEpisodes \o season_appended \o AppendedPart

\* season 1 with a part, after the first of two episode numbers
C29_Witness ==
    /\ pc = "parsed"
    /\ Has(File, "season") /\ File.season = << 1 >> /\ Has(File, "part")
    /\ file_info.name = TitleShow \o << " ", "8", "6", " ", "S", "e", "a", "s", "o", "n", " ", "1",
                                        " ", "P", "a", "r", "t", " ", "2" >>


(***************************************************************************)
(* The shared cache file's claim.                                          *)
(***************************************************************************)
\* the cache key of a process's directory
ProcessKey(p) == hash_path(dirname(loaded[p].path))

\* the process has run cache_to_file to its end: its mapping holds the entry it made
\* for its directory, and save_cache has written the mapping
SavedEntry(p) ==
    /\ loaded[p].pc = "done"
    /\ ProcessKey(p) \in DOMAIN loaded[p].cache
    /\ loaded[p].cache[ProcessKey(p)].ttl = now + CACHE_REFRESH_RATE

\* C30: a process reads cache.json once and every save writes its whole in-memory
\* mapping: when both processes loaded the file before either began a save and both
\* have saved their new entry, the file equals the mapping of the process that saved
\* last, and the entry the other process wrote for another directory is not in it.
C30_LastWriterWins ==
    (\A p \in Processes : loaded[p].early /\ SavedEntry(p)) =>
        \A p, q \in Processes :
            (loaded[p].last /\ q # p) =>
                /\ cache = loaded[p].cache
                /\ ProcessKey(q) # ProcessKey(p) =>
                       \/ ProcessKey(q) \notin DOMAIN cache
                       \/ cache[ProcessKey(q)] # loaded[q].cache[ProcessKey(q)]

\* both processes loaded an empty cache, each saved the entry of its own directory,
\* and the file holds the entry of the second process alone
C30_Witness ==
    /\ \A p \in Processes : loaded[p].early /\ SavedEntry(p) /\ loaded[p].saves = 1
    /\ loaded[2].last
    /\ ProcessKey(1) # ProcessKey(2)
    /\ DOMAIN cache = {ProcessKey(2)}
    /\ ProcessKey(1) \in DOMAIN loaded[1].cache


(***************************************************************************)
(* The rewatch of a completed entry (update_episode_count lines 310-340).  *)
(***************************************************************************)
\* the run took the two-step rewatch and its first mutation (status REPEATING,
\* progress 0) came back without a response
RewatchStep1Failed ==
    /\ mutations # << >>
    /\ mutations[1].variables = Variables(result.anime_id, 0, "REPEATING")
    /\ mutations[1].returned = "none"

\* C31: when the first mutation of the rewatch is not acknowledged by the service,
\* the run does not end as a successful update, returns no AnimeInfo with status
\* REPEATING and writes no cache entry.
C31_RewatchFailureSurfaced ==
    (pc = "done" /\ RewatchStep1Failed) =>
        /\ outcome # "updated"
        /\ updated.current_status # "REPEATING"
        /\ cache = CleanCache(cache_before, now)


\* C32: a PLANNING entry whose observed episode is the last one and is new, with
\* SET_TO_COMPLETED_AFTER_LAST_EPISODE_CURRENT enabled, is committed with the
\* status COMPLETED.
C32_PlanningCompleted ==
    ( /\ Reconciled /\ result.current_status = "PLANNING"
      /\ result.file_progress = result.total_episodes
      /\ result.file_progress > result.current_progress
      /\ options["SET_TO_COMPLETED_AFTER_LAST_EPISODE_CURRENT"] ) =>
        /\ mutations # << >>
        /\ mutations[1].variables = Variables(result.anime_id, result.file_progress, "COMPLETED")


(***************************************************************************)
(* The searches of get_anime_info_and_progress.                            *)
(***************************************************************************)
\* the media of the search answered last: the on-list search when one search was
\* made, the search of the whole catalog when two were
SearchedSeasons == ServiceSearch(list, access_token, searches = 1)

\* a search has given the AnimeInfo the reconciler is about to receive
Searched == pc = "update" /\ searches > 0 /\ result.anime_id # NoneInt

\* C33: the AnimeInfo a search gives is the resolver's (the season and relative
\* episode of find_season_and_episode over the filtered, sorted response) exactly
\* when the first result has a known episode count and the episode of the file
\* exceeds it; otherwise it is the first result with the episode of the file and
\* the first result's own progress and status.
C33_ResolverTrigger ==
    Searched =>
        LET first == SearchedSeasons[1]
            entry == first.mediaListEntry
            info == find_season_and_episode(filter_valid_seasons(SearchedSeasons),
                                            file_info.episode)
        IN IF first.episodes # NoneInt /\ file_info.episode > first.episodes
           THEN /\ result.anime_id = info.season_id
                /\ result.file_progress = info.relative_episode
                /\ result.total_episodes = info.episodes
                /\ result.current_progress = info.progress
           ELSE result = AnimeInfo(first.id, first.title,
                                   IF entry # NoEntry THEN entry.progress ELSE NoneInt,
                                   first.episodes, file_info.episode,
                                   IF entry # NoEntry THEN entry.status ELSE NoneStr)


\* the on-list search of this run, answered, has no entry for the title
OnListEmpty == ServiceSearch(list_before, access_token, TRUE) = << >>

\* C34: the first SEARCH_ANIME call is the on-list search and no mutation precedes
\* a search; the search of the whole catalog is the second call, made only when
\* the on-list search had no entry and the action is "launch" or
\* ADD_ENTRY_IF_MISSING is enabled; otherwise a run whose on-list search has no
\* entry ends in an error after one search and without a mutation.
C34_SearchOrder ==
    /\ pc = "search_on" => searches = 1 /\ mutations = << >>
    /\ pc = "search_all" => searches = 2 /\ mutations = << >>
    /\ searches <= 2
    /\ searches = 2 =>
           OnListEmpty /\ (action = "launch" \/ options["ADD_ENTRY_IF_MISSING"])
    /\ ( /\ pc = "done" /\ searches > 0 /\ OnListEmpty
         /\ ~(action = "launch" \/ options["ADD_ENTRY_IF_MISSING"]) ) =>
           /\ searches = 1
           /\ mutations = << >>
           /\ list = list_before
           /\ exit_status = 1

C34_Witness ==
    /\ pc = "done" /\ action = "update" /\ ~options["ADD_ENTRY_IF_MISSING"]
    /\ access_token = "token" /\ OnListEmpty
    /\ outcome = "NotFound" /\ searches = 1 /\ mutations = << >>


(***************************************************************************)
(* The cache across one run of handle_filename.                            *)
(***************************************************************************)
\* the run has ended with update_episode_count having returned an AnimeInfo
UpdateReturned == pc = "done" /\ outcome = "updated"

\* C35: in an "update" run the cache differs from the cache the run found only by
\* the expired entries purged, until update_episode_count has returned; a run
\* that ends in an exception has added and overwritten nothing, and a run whose
\* update returned has written the entry of the file's directory.
C35_CacheAfterSuccess ==
    (action = "update" /\ pc # "start") =>
        LET key == hash_path(dirname(filename))
        IN /\ \A k \in DOMAIN cache_before \ DOMAIN cache : cache_before[k].ttl < now
           /\ ~UpdateReturned =>
                  \A k \in DOMAIN cache : k \in DOMAIN cache_before /\ cache[k] = cache_before[k]
           /\ UpdateReturned =>
                  /\ key \in DOMAIN cache
                  /\ cache[key].ttl = now + CACHE_REFRESH_RATE
                  /\ cache[key].anime_id = updated.anime_id
                  /\ \A k \in DOMAIN cache \ {key} :
                         k \in DOMAIN cache_before /\ cache[k] = cache_before[k]

\* an update of an entry with an unexpired cache entry fails (the episode is not
\* new): the entry is still the one the run found
C35_Witness ==
    /\ action = "update" /\ pc = "done" /\ outcome = "NotNew"
    /\ cache_entry # NoCacheEntry
    /\ cache = cache_before /\ cache # EmptyCache


\* the run rebuilt its AnimeInfo from the cache entry (no search was made)
ServedFromCache == cache_entry # NoCacheEntry /\ searches = 0 /\ pc # "start"

\* C36: when an update served from a cache hit has returned, the entry written
\* for the directory has the anime_id of the entry that was hit and the same
\* offset between the absolute and the relative episode of its relative_progress.
C36_OffsetKept ==
    (action = "update" /\ ServedFromCache /\ UpdateReturned) =>
        LET key == hash_path(dirname(filename))
        IN /\ key \in DOMAIN cache
           /\ cache[key].anime_id = cache_entry.anime_id
           /\ CacheOffset(cache[key]) = CacheOffset(cache_entry)

\* episode 3 of the files is episode 1 of "Show 2": the entry hit says 4->2, the
\* entry written says 3->1
C36_Witness ==
    /\ action = "update" /\ ServedFromCache /\ UpdateReturned
    /\ cache_entry.anime_id = 2 /\ cache_entry.relative_progress = FormatMapping(4, 2)
    /\ CacheOffset(cache_entry) = 2
    /\ file_info.episode = 3
    /\ cache[hash_path(dirname(filename))].relative_progress = FormatMapping(3, 1)
    /\ cache[hash_path(dirname(filename))] # cache_entry


(***************************************************************************)
(* Two invocations in a row.                                               *)
(***************************************************************************)
\* the second invocation is for the file of the first, which ended as a successful
\* update with every mutation answered; the cache entry it wrote has not expired
\* and no other client has changed the list since
RerunAtOnce ==
    /\ history # << >>
    /\ history[1].outcome = "updated"
    /\ \A i \in DOMAIN history[1].mutations : history[1].mutations[i].returned = "json"
    /\ history[1].file_info = file_info
    /\ history[1].now = now
    /\ history[1].list = list_before

\* C37: an update repeated for the same file right after a successful update
\* leaves the viewer's list as the first update left it.
C37_RerunChangesNothing ==
    RerunAtOnce => list = list_before


\* C38: a mutation issued for an entry that the service holds as CURRENT or
\* PLANNING carries a progress greater than the progress the service holds when
\* the mutation is issued.
C38_NoRegression ==
    mutations # << >> =>
        LET v == mutations[1].variables
            entry == list_before[v.mediaId]
        IN entry.status \in {"CURRENT", "PLANNING"} => v.progress > entry.progress


=============================================================================
